---- MODULE Spec2Model ----
(***************************************************************************)
(* skr.h: single-header rendering engine.  Model of the render-resource    *)
(* lifecycle: the error channel, shader compilation and linking, texture   *)
(* creation and release, mesh teardown, and SkrInit / SkrTriangle /        *)
(* SkrRendererRender / SkrFinalize.                                        *)
(*                                                                         *)
(* The graphics API and the window library are external: they are modelled *)
(* as object tables (the names that are live) plus the trace of the calls  *)
(* the engine makes during one operation.  An object is "live" from the    *)
(* call that creates it to the glDelete* call that releases it.  Names are *)
(* handed out in increasing order and never reused, so that a release of a *)
(* name that is no longer live can be told from a release of a new object. *)
(***************************************************************************)
EXTENDS Integers, Sequences, FiniteSets, TLC

VARIABLES
    SKR_LAST_ERROR, \* the global error buffer, as the C string it holds
    gl,             \* object tables of the graphics API context
    calls,          \* backend and libc calls made by the operation that ran last
    op,             \* the operation that ran last, with its arguments
    ret,            \* what that operation returned
    env,            \* the collaborators' answers for one operation (link status, allocator, image loader)
    input,          \* application side: the arguments of the operation under test, the arrays it fills
    state,          \* SkrState: Window, Models, ModelCount, Programs, ProgramCount
    meshes,         \* memory holding SkrMesh objects; a pointer is an index, 0 the null pointer
    models,         \* memory holding SkrModel objects; a pointer is an index, 0 the null pointer
    window,         \* the SkrWindow of the application
    glfw,           \* the window library: initialised or not, the native window, callbacks
    g_skr_camera,   \* the global camera pointer: NULL or "camera"
    camera,         \* the SkrCamera of the application, the one g_skr_camera can point at
    textures,       \* the application's array of texture IDs (unsigned int[])
    images,         \* pixel buffers handed out by the application's image loader
    main            \* the example's main(): where it stands, what its last close query said

vars == <<SKR_LAST_ERROR, gl, calls, op, ret, env, input, state, meshes, models,
          window, glfw, g_skr_camera, camera, textures, images, main>>

NULL == "NULL"      \* the null pointer, for strings and for named storage

\* a pointer to an array: null, or the elements it points at
NullArray == [null |-> TRUE, at |-> <<>>]
Array(elems) == [null |-> FALSE, at |-> elems]

(***************************************************************************)
(* Bounds of the model.                                                    *)
(***************************************************************************)
MaxBatch == 2       \* longest descriptor batch given to buildProgram
MaxModels == 2      \* most models in the engine state
MaxMeshes == 1      \* most meshes in a model
MaxTex == 1         \* textures of a textured mesh
MaxSlots == 2       \* length of the application's array of texture IDs
MaxLoads == 2       \* texture objects generated over a run of the application
MaxWindows == 2     \* native windows created over a run of the application
MaxTriangles == 2   \* calls of SkrTriangle over a run of the application
MaxCalls == 2       \* core calls made one after the other on the one error buffer
MaxBuilds == 2      \* programs an application builds over a run

(***************************************************************************)
(* Program constants.                                                      *)
(***************************************************************************)
SKR_LAST_ERROR_SIZE == 1044

GL_VERTEX_SHADER == "GL_VERTEX_SHADER"
GL_FRAGMENT_SHADER == "GL_FRAGMENT_SHADER"
GL_GEOMETRY_SHADER == "GL_GEOMETRY_SHADER"
\* shader types of the graphics API that the switch of m_skr_gl_create_shader
\* (skr.h:827-840) has no case for
GL_COMPUTE_SHADER == "GL_COMPUTE_SHADER"
GL_TESS_CONTROL_SHADER == "GL_TESS_CONTROL_SHADER"
GL_TESS_EVALUATION_SHADER == "GL_TESS_EVALUATION_SHADER"

(***************************************************************************)
(* The world an engine function runs in: the error buffer, the graphics    *)
(* context, the call trace and the collaborators' answers.  Every engine   *)
(* function is an operator from a world (and its arguments) to the record  *)
(* [m |-> the world after, ret |-> the value returned].                    *)
(***************************************************************************)
World ==
    [err |-> SKR_LAST_ERROR, gl |-> gl, calls |-> <<>>, env |-> env,
     state |-> state, meshes |-> meshes, models |-> models, window |-> window, glfw |-> glfw,
     textures |-> textures, images |-> images, camera |-> camera]

\* the world of a call: the collaborators answer as e says
WorldWith(e) == [World EXCEPT !.env = e]

\* the world after an operation becomes the next state
Commit(m) ==
    /\ SKR_LAST_ERROR' = m.err
    /\ gl' = m.gl
    /\ calls' = m.calls
    /\ state' = m.state
    /\ meshes' = m.meshes
    /\ models' = m.models
    /\ window' = m.window
    /\ glfw' = m.glfw
    /\ textures' = m.textures
    /\ images' = m.images
    /\ camera' = m.camera

\* F(v), with v evaluated once however often F uses its argument
Let(v, F(_)) == CHOOSE r \in {F(x) : x \in {v}} : TRUE

Emit(m, c) == [m EXCEPT !.calls = Append(@, c)]

CallsNamed(trace, f) == {i \in 1..Len(trace) : trace[i][1] = f}

(***************************************************************************)
(* Error channel.                                                          *)
(***************************************************************************)
Take(s, n) == IF Len(s) <= n THEN s ELSE SubSeq(s, 1, n)

\* variant: the text is stored whole, whatever the size of the buffer
snprintfStored_unbounded(size, text) == text

\* snprintf(buf, size, ...): the text stored, and the length it reports
snprintfStored(size, text) == Take(text, size - 1)

ErrorPrefix(line, func) == "[SKR] ERROR skr.h:" \o line \o ":" \o func \o ": "

\* variant: the offset of the message is the length of the prefix, however long it is
m_skr_last_error_set_with_meta_noreset(m, line, func, msg) ==
    LET prefix  == ErrorPrefix(line, func)
        written == Len(prefix)
        head    == Take(snprintfStored(SKR_LAST_ERROR_SIZE, prefix), written)
    IN  [m EXCEPT !.err = head \o snprintfStored(SKR_LAST_ERROR_SIZE - written, msg)]

m_skr_last_error_set_with_meta(m, line, func, msg) ==
    LET prefix  == ErrorPrefix(line, func)
        n       == Len(prefix)
        written == IF n >= SKR_LAST_ERROR_SIZE THEN 0 ELSE n
        head    == Take(snprintfStored(SKR_LAST_ERROR_SIZE, prefix), written)
    IN  [m EXCEPT !.err = head \o snprintfStored(SKR_LAST_ERROR_SIZE - written, msg)]

\* variant: leaves the buffer as it is
m_skr_last_error_clear_keep(m) == m

m_skr_last_error_clear(m) == [m EXCEPT !.err = ""]

SKR_OK == SKR_LAST_ERROR = ""

(***************************************************************************)
(* libc: the allocator and the file system.  The env.failAt-th allocation  *)
(* of an operation returns the null address 0 (failAt = 0: none fails).    *)
(***************************************************************************)
GoodSource == "void main() {}"
BadSource == "void main() {"

GoodPath == "good.glsl"
BadPath == "bad.glsl"
MissingPath == "missing.glsl"

FileContents == (GoodPath :> GoodSource) @@ (BadPath :> BadSource)

malloc(m) ==
    LET nth == Cardinality(CallsNamed(m.calls, "malloc")) + 1
    IN  [m |-> Emit(m, <<"malloc", nth>>),
         ret |-> IF nth = m.env.failAt THEN 0 ELSE nth]

free(m, p) == Emit(m, <<"free", p>>)

fopen(m, path) ==
    [m |-> Emit(m, <<"fopen", path>>),
     ret |-> IF path \in DOMAIN FileContents THEN path ELSE NULL]

\* a char* buffer: its address (0: the null pointer) and the text it holds
NoBuffer == [buf |-> 0, text |-> ""]

\* variant: a successful read leaves the error buffer as it was
m_skr_read_file_noclear(m, path) ==
    LET f == fopen(m, path) IN
    IF f.ret = NULL
    THEN [m |-> m_skr_last_error_set_with_meta(f.m, "632", "m_skr_read_file", "failed to open"),
          ret |-> NoBuffer]
    ELSE LET a == malloc(f.m) IN
         IF a.ret = 0
         THEN [m |-> m_skr_last_error_set_with_meta(Emit(a.m, <<"fclose", path>>), "643",
                                                    "m_skr_read_file", "failed to open"),
               ret |-> NoBuffer]
         ELSE [m |-> Emit(a.m, <<"fclose", path>>),
               ret |-> [buf |-> a.ret, text |-> FileContents[path]]]

m_skr_read_file(m, path) ==
    LET f == fopen(m, path) IN
    IF f.ret = NULL
    THEN [m |-> m_skr_last_error_set_with_meta(f.m, "632", "m_skr_read_file", "failed to open"),
          ret |-> NoBuffer]
    ELSE LET a == malloc(f.m) IN
         IF a.ret = 0
         THEN [m |-> m_skr_last_error_set_with_meta(Emit(a.m, <<"fclose", path>>), "643",
                                                    "m_skr_read_file", "failed to open"),
               ret |-> NoBuffer]
         ELSE [m |-> m_skr_last_error_clear(Emit(a.m, <<"fclose", path>>)),
               ret |-> [buf |-> a.ret, text |-> FileContents[path]]]

(***************************************************************************)
(* Graphics API: shader and program objects.  Shaders and programs share   *)
(* one name space.  glDeleteShader on an attached shader only flags it;    *)
(* the object goes when it is detached.  Deleting the name 0 is ignored; a *)
(* delete of a name that is not live is recorded in gl.stale.              *)
(***************************************************************************)
GLInit ==
    [shaders |-> {}, compiled |-> {}, flagged |-> {}, programs |-> {}, linked |-> {},
     attached |-> {}, next |-> 1,
     textures |-> {}, nextTex |-> 1, vaos |-> {}, nextVao |-> 1,
     buffers |-> {}, nextBuf |-> 1,
     boundVao |-> 0, boundArrayBuffer |-> 0, boundElementBuffer |-> 0,
     boundTexture |-> 0, usedProgram |-> 0,
     stale |-> {}]

ValidSources == {GoodSource}

glCreateShader(m, type) ==
    LET n == m.gl.next IN
    [m |-> Emit([m EXCEPT !.gl.shaders = @ \cup {n}, !.gl.next = n + 1],
                <<"glCreateShader", type, n>>),
     ret |-> n]

\* glShaderSource followed by glCompileShader
glCompileShader(m, shader, source) ==
    Emit([m EXCEPT !.gl.compiled = IF source \in ValidSources THEN @ \cup {shader} ELSE @],
         <<"glCompileShader", shader, source>>)

RemoveShader(g, shader) ==
    [g EXCEPT !.shaders = @ \ {shader}, !.compiled = @ \ {shader}, !.flagged = @ \ {shader}]

glDeleteShader(m, shader) ==
    LET g == m.gl
        g2 == IF shader = 0 THEN g
              ELSE IF shader \notin g.shaders
                   THEN [g EXCEPT !.stale = @ \cup {<<"shader", shader>>}]
              ELSE IF \E p \in g.programs : <<p, shader>> \in g.attached
                   THEN [g EXCEPT !.flagged = @ \cup {shader}]
              ELSE RemoveShader(g, shader)
    IN  Emit([m EXCEPT !.gl = g2], <<"glDeleteShader", shader>>)

glCreateProgram(m) ==
    LET n == m.gl.next IN
    [m |-> Emit([m EXCEPT !.gl.programs = @ \cup {n}, !.gl.next = n + 1],
                <<"glCreateProgram", n>>),
     ret |-> n]

glAttachShader(m, program, shader) ==
    Emit([m EXCEPT !.gl.attached =
              IF program \in m.gl.programs /\ shader \in m.gl.shaders
              THEN @ \cup {<<program, shader>>} ELSE @],
         <<"glAttachShader", program, shader>>)

\* the link status is the linker's answer, env.linkOk
glLinkProgram(m, program) ==
    Emit([m EXCEPT !.gl.linked = IF m.env.linkOk THEN @ \cup {program} ELSE @],
         <<"glLinkProgram", program>>)

\* shaders that were flagged for deletion and are attached to nothing any more go
Sweep(g) ==
    LET gone == {s \in g.flagged : ~ \E p \in g.programs : <<p, s>> \in g.attached}
    IN  [g EXCEPT !.shaders = @ \ gone, !.compiled = @ \ gone, !.flagged = @ \ gone]

glDetachShader(m, program, shader) ==
    Emit([m EXCEPT !.gl = Sweep([m.gl EXCEPT !.attached = @ \ {<<program, shader>>}])],
         <<"glDetachShader", program, shader>>)

glDeleteProgram(m, program) ==
    LET g == m.gl
        g2 == IF program = 0 THEN g
              ELSE IF program \notin g.programs
                   THEN [g EXCEPT !.stale = @ \cup {<<"program", program>>}]
              ELSE Sweep([g EXCEPT !.programs = @ \ {program},
                                   !.linked = @ \ {program},
                                   !.attached = {a \in @ : a[1] # program}])
    IN  Emit([m EXCEPT !.gl = g2], <<"glDeleteProgram", program>>)

(***************************************************************************)
(* Shader compiler / linker.                                               *)
(***************************************************************************)
InfoLog == "0:1(14): error: syntax error"

\* m_skr_gl_check_compile_errors(shader, type): 1 if compiled / linked, else 0
\* with the diagnostic in the error channel
m_skr_gl_check_compile_errors(m, shader, type) ==
    IF type = "prog"
    THEN IF shader \notin m.gl.linked
         THEN [m |-> m_skr_last_error_set_with_meta(m, "793", "m_skr_gl_check_compile_errors",
                            "failed to link " \o type \o ": " \o InfoLog),
               ret |-> 0]
         ELSE [m |-> m, ret |-> 1]
    ELSE IF shader \notin m.gl.compiled
         THEN [m |-> m_skr_last_error_set_with_meta(m, "802", "m_skr_gl_check_compile_errors",
                            "failed to compile " \o type \o ": " \o InfoLog),
               ret |-> 0]
         ELSE [m |-> m, ret |-> 1]

TypeLabel(type) ==
    CASE type = GL_VERTEX_SHADER -> "vert"
      [] type = GL_FRAGMENT_SHADER -> "frag"
      [] type = GL_GEOMETRY_SHADER -> "geom"
      [] OTHER -> "unknown"

\* variant: the shader that failed to compile is not deleted
m_skr_gl_create_shader_leak(m, type, source) ==
    LET c  == glCreateShader(m, type)
        m1 == glCompileShader(c.m, c.ret, source)
        k  == m_skr_gl_check_compile_errors(m1, c.ret, TypeLabel(type))
    IN  IF k.ret = 0
        THEN [m |-> k.m, ret |-> 0]
        ELSE [m |-> m_skr_last_error_clear(k.m), ret |-> c.ret]

m_skr_gl_create_shader(m, type, source) ==
    LET c  == glCreateShader(m, type)
        m1 == glCompileShader(c.m, c.ret, source)
        k  == m_skr_gl_check_compile_errors(m1, c.ret, TypeLabel(type))
    IN  IF k.ret = 0
        THEN [m |-> glDeleteShader(k.m, c.ret), ret |-> 0]
        ELSE [m |-> m_skr_last_error_clear(k.m), ret |-> c.ret]

m_skr_gl_create_shader_from_file(m, type, path) ==
    LET r == m_skr_read_file(m, path) IN
    IF r.ret.buf = 0
    THEN [m |-> r.m, ret |-> 0]
    ELSE LET s == m_skr_gl_create_shader(r.m, type, r.ret.text)
         IN  [m |-> m_skr_last_error_clear(free(s.m, r.ret.buf)), ret |-> s.ret]

RECURSIVE AttachAll(_, _, _, _)
AttachAll(m, program, shaders, i) ==
    IF i > Len(shaders) THEN m
    ELSE AttachAll(glAttachShader(m, program, shaders[i]), program, shaders, i + 1)

\* variant: detaches every shader and deletes none
RECURSIVE DetachDeleteAll_detachOnly(_, _, _, _)
DetachDeleteAll_detachOnly(m, program, shaders, i) ==
    IF i > Len(shaders) THEN m
    ELSE DetachDeleteAll_detachOnly(glDetachShader(m, program, shaders[i]),
                                    program, shaders, i + 1)

RECURSIVE DetachDeleteAll(_, _, _, _)
DetachDeleteAll(m, program, shaders, i) ==
    IF i > Len(shaders) THEN m
    ELSE DetachDeleteAll(glDeleteShader(glDetachShader(m, program, shaders[i]), shaders[i]),
                         program, shaders, i + 1)

\* variant: a failed link also detaches and deletes the shaders
m_skr_gl_create_program_rollback(m, shaders) ==
    LET p  == glCreateProgram(m)
        m1 == glLinkProgram(AttachAll(p.m, p.ret, shaders, 1), p.ret)
        k  == m_skr_gl_check_compile_errors(m1, p.ret, "prog")
    IN  IF k.ret = 0
        THEN [m |-> glDeleteProgram(DetachDeleteAll(k.m, p.ret, shaders, 1), p.ret), ret |-> 0]
        ELSE [m |-> m_skr_last_error_clear(DetachDeleteAll(k.m, p.ret, shaders, 1)),
              ret |-> p.ret]

\* m_skr_gl_create_program(shaders, count), count = Len(shaders)
m_skr_gl_create_program(m, shaders) ==
    LET p  == glCreateProgram(m)
        m1 == glLinkProgram(AttachAll(p.m, p.ret, shaders, 1), p.ret)
        k  == m_skr_gl_check_compile_errors(m1, p.ret, "prog")
    IN  IF k.ret = 0
        THEN [m |-> glDeleteProgram(k.m, p.ret), ret |-> 0]
        ELSE [m |-> m_skr_last_error_clear(DetachDeleteAll(k.m, p.ret, shaders, 1)),
              ret |-> p.ret]

\* for (j = 0; j < i; ++j) glDeleteShader(shaders[j]);  (shaders holds the first i-1 here)
RECURSIVE DeleteShaders(_, _, _)
DeleteShaders(m, shaders, j) ==
    IF j > Len(shaders) THEN m
    ELSE DeleteShaders(glDeleteShader(m, shaders[j]), shaders, j + 1)

\* lines 962-970: link what was compiled, free the handle array
BuildLink(m, shaders, buf) ==
    LET p  == m_skr_gl_create_program(m, shaders)
        m1 == free(p.m, buf)
    IN  IF p.ret = 0
        THEN [m |-> m1, ret |-> 0]
        ELSE [m |-> m_skr_last_error_clear(m1), ret |-> p.ret]

\* variant: returns failure without recording a message
BuildFailNeither_silent(m, shaders, buf) ==
    [m |-> free(DeleteShaders(m, shaders, 1), buf), ret |-> 0]

\* lines 941-949: the descriptor has neither Source nor Path
BuildFailNeither(m, shaders, buf) ==
    [m |-> m_skr_last_error_set_with_meta(
               free(DeleteShaders(m, shaders, 1), buf), "946",
               "m_skr_gl_create_program_from_shaders",
               "shader.Source and shader.Path are NULL"),
     ret |-> 0]

\* variant: returns failure without releasing the shaders compiled so far
BuildFailCompile_leak(m, shaders, buf) ==
    [m |-> free(m, buf), ret |-> 0]

\* lines 951-957: the descriptor did not compile
BuildFailCompile(m, shaders, buf) ==
    [m |-> free(DeleteShaders(m, shaders, 1), buf), ret |-> 0]

\* variant: Path if present, else Source
CompileDescriptor_pathFirst(m, s) ==
    IF s.Path # NULL
    THEN m_skr_gl_create_shader_from_file(m, s.Type, s.Path)
    ELSE m_skr_gl_create_shader(m, s.Type, s.Source)

\* lines 936-940: Source if present, else Path
CompileDescriptor(m, s) ==
    IF s.Source # NULL
    THEN m_skr_gl_create_shader(m, s.Type, s.Source)
    ELSE m_skr_gl_create_shader_from_file(m, s.Type, s.Path)

\* the loop of m_skr_gl_create_program_from_shaders from index i on; shaders
\* holds the handles compiled for the indices before i; buf is the malloc'd array
RECURSIVE CompileFrom(_, _, _, _, _)
CompileFrom(m, shaders_input, shaders, i, buf) ==
    IF i > Len(shaders_input)
    THEN BuildLink(m, shaders, buf)
    ELSE LET s == shaders_input[i] IN
         IF s.Source = NULL /\ s.Path = NULL
         THEN BuildFailNeither(m, shaders, buf)
         ELSE LET c == CompileDescriptor(m, s)
              IN  IF c.ret = 0
                  THEN BuildFailCompile(c.m, shaders, buf)
                  ELSE CompileFrom(c.m, shaders_input, Append(shaders, c.ret), i + 1, buf)

m_skr_gl_create_program_from_shaders(m, shaders_input, count) ==
    IF shaders_input.null \/ count = 0
    THEN [m |-> m_skr_last_error_set_with_meta(m, "922",
                    "m_skr_gl_create_program_from_shaders",
                    "either shaders_input != 1 or count == 0"),
          ret |-> 0]
    ELSE LET a == malloc(m) IN
         IF a.ret = 0
         THEN [m |-> m_skr_last_error_set_with_meta(a.m, "928",
                         "m_skr_gl_create_program_from_shaders", "shaders_input == NULL"),
               ret |-> 0]
         ELSE CompileFrom(a.m, SubSeq(shaders_input.at, 1, count), <<>>, 1, a.ret)

(***************************************************************************)
(* m_skr_gl_shader_destroy(GLuint* program).  The pointer is null or       *)
(* points at a GLuint of the application; the value returned here is what  *)
(* that GLuint holds afterwards.                                           *)
(***************************************************************************)
\* variant: the program is deleted and the handle is left as it was
m_skr_gl_shader_destroy_noreset(m, program) ==
    IF ~program.null /\ program.at # 0
    THEN [m |-> m_skr_last_error_clear(glDeleteProgram(m, program.at)), ret |-> program.at]
    ELSE [m |-> m, ret |-> program.at]

m_skr_gl_shader_destroy(m, program) ==
    IF ~program.null /\ program.at # 0
    THEN [m |-> m_skr_last_error_clear(glDeleteProgram(m, program.at)), ret |-> 0]
    ELSE [m |-> m, ret |-> program.at]

(***************************************************************************)
(* The engine state before any window exists.                              *)
(***************************************************************************)
MeshZero ==
    [VAO |-> 0, VBO |-> 0, EBO |-> 0, VertexCount |-> 0,
     Textures |-> NullArray, TextureCount |-> 0, Program |-> 0]

ModelZero == [Meshes |-> 0, MeshCount |-> 0]

StateZero ==
    [Window |-> NULL, Models |-> 0, ModelCount |-> 0, Programs |-> 0, ProgramCount |-> 0]

\* the static objects of m_skr_gl_triangle sit at the first address of each memory
TriMeshAddr == 1
TriModelAddr == 1

\* the SkrWindow of the examples; GLFW is Backend.Handler.GLFW, 0 the null handle
WindowZero == [Title |-> "Hello SKR", Width |-> 800, Height |-> 600,
               InputHandler |-> NULL, GLFW |-> 0]

\* the window library before glfwInit
\* windows: the native windows that exist; resizeCallback, cursorCallback: the windows
\* with that callback installed; closing: the windows whose close flag is set;
\* terminations: how often an initialised library was shut down; misuse: the calls
\* made on a window that does not exist or on a library that is not initialised
GlfwZero == [lib |-> "uninitialized", windows |-> {}, nextWindow |-> 1, current |-> 0,
             resizeCallback |-> {}, cursorCallback |-> {}, closing |-> {},
             terminations |-> 0, misuse |-> {}]

\* the window library and the window after a successful m_skr_gl_glfw_init
GlfwReady == [GlfwZero EXCEPT !.lib = "initialized", !.windows = {1}, !.nextWindow = 2,
                              !.current = 1, !.resizeCallback = {1}]

WindowReady == [WindowZero EXCEPT !.GLFW = 1]

\* SkrDefaultFPSCamera (skr.h:510-522).  Angles are in tenths of a degree and
\* Sensitivity in tenths, so that 0.1f is 1 and 89.0f is 890; cursor positions are
\* in pixels.  Front is the direction of (Yaw, Pitch), normalised.
Direction(yaw, pitch) == [yaw |-> yaw, pitch |-> pitch]

SkrDefaultFPSCamera ==
    [Position |-> <<0, 0, 3>>, Front |-> Direction(-900, 0), Up |-> <<0, 1, 0>>,
     Right |-> <<0, 0, 0>>, WorldUp |-> <<0, 0, 0>>,
     Yaw |-> -900, Pitch |-> 0, FOV |-> 700,
     Sensitivity |-> 1, LastX |-> 400, LastY |-> 300,
     FirstMouse |-> TRUE, Initialized |-> FALSE]

\* main() before its first statement; triangle: the variant that calls SkrTriangle
MainZero == [pc |-> "SkrInit", lastQuery |-> "none", triangle |-> FALSE]

TexturesZero == [i \in 1..MaxSlots |-> 0]

ImagesZero == [next |-> 1, live |-> {}, freed |-> <<>>]

\* events: what the next glfwPollEvents delivers; fbSize: the framebuffer size the
\* library reports; glewOk: whether glewInit succeeds; cursor: where the cursor is
EnvNone == [linkOk |-> TRUE, failAt |-> 0, glfwInitOk |-> TRUE, windowOk |-> TRUE,
            events |-> {}, fbSize |-> <<800, 600>>, glewOk |-> TRUE, cursor |-> <<400, 300>>]

\* a message left in the channel by an earlier failing call
StaleError == m_skr_last_error_set_with_meta([err |-> ""], "632", "m_skr_read_file",
                                             "failed to open").err

\* no operation has run yet
OpNone == [name |-> "none", errBefore |-> ""]

Rest ==
    /\ state = StateZero
    /\ meshes = <<MeshZero>>
    /\ models = <<ModelZero>>
    /\ window = WindowZero
    /\ glfw = GlfwZero
    /\ g_skr_camera = NULL
    /\ camera = SkrDefaultFPSCamera
    /\ main = MainZero
    /\ textures = TexturesZero
    /\ images = ImagesZero

(***************************************************************************)
(* buildProgram: one call of m_skr_gl_create_program_from_shaders on a     *)
(* descriptor batch, with the channel empty or holding an earlier error.   *)
(***************************************************************************)
Sources == {NULL, GoodSource, BadSource}

Paths == {NULL, GoodPath, BadPath, MissingPath}

BatchTypes == {GL_VERTEX_SHADER, GL_FRAGMENT_SHADER}

Descriptors == [Type : BatchTypes, Source : Sources, Path : Paths]

\* (shaders_input, count): a null pointer with any count, or an array and its length
Batches ==
    {[shaders_input |-> NullArray, count |-> n] : n \in 0..MaxBatch}
    \cup {[shaders_input |-> Array(b), count |-> Len(b)] :
             b \in UNION {[1..n -> Descriptors] : n \in 0..MaxBatch}}

BuildEnvs == {[EnvNone EXCEPT !.linkOk = l, !.failAt = f] :
                 l \in BOOLEAN, f \in 0..(MaxBatch + 1)}

InitBuild ==
    /\ SKR_LAST_ERROR \in {"", StaleError}
    /\ gl = GLInit
    /\ calls = <<>>
    /\ op = OpNone
    /\ ret = 0
    /\ env \in BuildEnvs
    /\ input \in Batches
    /\ Rest

BuildProgram ==
    /\ op.name = "none"
    /\ LET r == m_skr_gl_create_program_from_shaders(World, input.shaders_input, input.count) IN
       /\ Commit(r.m)
       /\ ret' = r.ret
    /\ op' = [name |-> "buildProgram", errBefore |-> SKR_LAST_ERROR]
    /\ UNCHANGED <<env, input, g_skr_camera, main>>

NextBuild == BuildProgram

SpecBuild == InitBuild /\ [][NextBuild]_vars

(***************************************************************************)
(* Graphics API: textures, vertex arrays, buffers and the bindings.        *)
(* Deleting the object that is bound resets that binding to 0.             *)
(***************************************************************************)
glGenTextures(m) ==
    LET n == m.gl.nextTex IN
    [m |-> Emit([m EXCEPT !.gl.textures = @ \cup {n}, !.gl.nextTex = n + 1],
                <<"glGenTextures", n>>),
     ret |-> n]

glDeleteTextures(m, id) ==
    LET g == m.gl
        g2 == IF id = 0 THEN g
              ELSE IF id \notin g.textures
                   THEN [g EXCEPT !.stale = @ \cup {<<"texture", id>>}]
              ELSE [g EXCEPT !.textures = @ \ {id},
                             !.boundTexture = IF @ = id THEN 0 ELSE @]
    IN  Emit([m EXCEPT !.gl = g2], <<"glDeleteTextures", id>>)

glGenVertexArrays(m) ==
    LET n == m.gl.nextVao IN
    [m |-> Emit([m EXCEPT !.gl.vaos = @ \cup {n}, !.gl.nextVao = n + 1],
                <<"glGenVertexArrays", n>>),
     ret |-> n]

glDeleteVertexArrays(m, id) ==
    LET g == m.gl
        g2 == IF id = 0 THEN g
              ELSE IF id \notin g.vaos
                   THEN [g EXCEPT !.stale = @ \cup {<<"vertex array", id>>}]
              ELSE [g EXCEPT !.vaos = @ \ {id},
                             !.boundVao = IF @ = id THEN 0 ELSE @]
    IN  Emit([m EXCEPT !.gl = g2], <<"glDeleteVertexArrays", id>>)

glGenBuffers(m) ==
    LET n == m.gl.nextBuf IN
    [m |-> Emit([m EXCEPT !.gl.buffers = @ \cup {n}, !.gl.nextBuf = n + 1],
                <<"glGenBuffers", n>>),
     ret |-> n]

glDeleteBuffers(m, id) ==
    LET g == m.gl
        g2 == IF id = 0 THEN g
              ELSE IF id \notin g.buffers
                   THEN [g EXCEPT !.stale = @ \cup {<<"buffer", id>>}]
              ELSE [g EXCEPT !.buffers = @ \ {id},
                             !.boundArrayBuffer = IF @ = id THEN 0 ELSE @,
                             !.boundElementBuffer = IF @ = id THEN 0 ELSE @]
    IN  Emit([m EXCEPT !.gl = g2], <<"glDeleteBuffers", id>>)

glBindVertexArray(m, id) ==
    Emit([m EXCEPT !.gl.boundVao = id], <<"glBindVertexArray", id>>)

glBindBuffer(m, target, id) ==
    Emit(IF target = "GL_ARRAY_BUFFER"
         THEN [m EXCEPT !.gl.boundArrayBuffer = id]
         ELSE [m EXCEPT !.gl.boundElementBuffer = id],
         <<"glBindBuffer", target, id>>)

glUseProgram(m, program) ==
    Emit([m EXCEPT !.gl.usedProgram = program], <<"glUseProgram", program>>)

(***************************************************************************)
(* Mesh teardown: m_skr_gl_renderer_finalize.  s is the null pointer or    *)
(* the address of the engine state; an array element i (from 0) of the     *)
(* array at address base sits at base + i.                                 *)
(***************************************************************************)
\* lines 1107-1113: glDeleteTextures(1, &mesh->Textures[t].ID) for t < TextureCount
RECURSIVE DeleteMeshTextures(_, _, _)
DeleteMeshTextures(m, mesh, t) ==
    IF t >= mesh.TextureCount THEN m
    ELSE DeleteMeshTextures(glDeleteTextures(m, mesh.Textures.at[t + 1].ID), mesh, t + 1)

\* variant: releases the three handles without testing them for zero
FinalizeMesh_unguarded(m, a) ==
    LET mesh == m.meshes[a]
        m1 == IF ~mesh.Textures.null /\ mesh.TextureCount > 0
              THEN DeleteMeshTextures(m, mesh, 0) ELSE m
        m2 == glDeleteBuffers(glDeleteBuffers(glDeleteVertexArrays(m1, mesh.VAO), mesh.VBO),
                              mesh.EBO)
    IN  [m2 EXCEPT !.meshes[a].VAO = 0, !.meshes[a].VBO = 0, !.meshes[a].EBO = 0,
                   !.meshes[a].Program = 0]

\* lines 1105-1123: the body of the mesh loop, for the mesh at address a
FinalizeMesh(m, a) ==
    LET mesh == m.meshes[a]
        m1 == IF ~mesh.Textures.null /\ mesh.TextureCount > 0
              THEN DeleteMeshTextures(m, mesh, 0) ELSE m
        m2 == IF mesh.VAO # 0 THEN glDeleteVertexArrays(m1, mesh.VAO) ELSE m1
        m3 == IF mesh.VBO # 0 THEN glDeleteBuffers(m2, mesh.VBO) ELSE m2
        m4 == IF mesh.EBO # 0 THEN glDeleteBuffers(m3, mesh.EBO) ELSE m3
    IN  [m4 EXCEPT !.meshes[a].VAO = 0, !.meshes[a].VBO = 0, !.meshes[a].EBO = 0,
                   !.meshes[a].Program = 0]

RECURSIVE FinalizeMeshes(_, _, _)
FinalizeMeshes(m, model, j) ==
    IF j >= model.MeshCount THEN m
    ELSE FinalizeMeshes(FinalizeMesh(m, model.Meshes + j), model, j + 1)

RECURSIVE FinalizeModels(_, _)
FinalizeModels(m, i) ==
    IF i >= m.state.ModelCount THEN m
    ELSE LET model == m.models[m.state.Models + i] IN
         IF model.Meshes = 0
         THEN FinalizeModels(m, i + 1)
         ELSE FinalizeModels(FinalizeMeshes(m, model, 0), i + 1)

m_skr_gl_renderer_finalize(m, s) ==
    IF s = NULL THEN m
    ELSE glUseProgram(
             glBindBuffer(
                 glBindBuffer(glBindVertexArray(FinalizeModels(m, 0), 0), "GL_ARRAY_BUFFER", 0),
                 "GL_ELEMENT_ARRAY_BUFFER", 0),
             0)

(***************************************************************************)
(* Teardown of application-built models.  The application has filled the   *)
(* engine state with up to MaxModels models of up to MaxMeshes meshes.  A  *)
(* mesh is not uploaded (all handles 0), uploaded as plain arrays (VAO and *)
(* VBO) or uploaded indexed (VAO, VBO and EBO), with or without MaxTex     *)
(* textures; every nonzero handle names a live object of its own.          *)
(***************************************************************************)
MeshKinds == [arrays : {"none", "plain", "indexed"}, textured : BOOLEAN]

\* a model: no mesh array (with its count left at 0 or not), or an array of meshes
ModelShapes ==
    {[null |-> TRUE, count |-> n, kinds |-> <<>>] : n \in {0, MaxMeshes}}
    \cup {[null |-> FALSE, count |-> Len(k), kinds |-> k] :
            k \in UNION {[1..n -> MeshKinds] : n \in 0..MaxMeshes}}

StateShapes == UNION {[1..n -> ModelShapes] : n \in 0..MaxModels}

\* the mesh of kind k stored at address a, with handles of its own
MeshAt(k, a) ==
    [VAO |-> IF k.arrays \in {"none", "pending"} THEN 0 ELSE a,
     VBO |-> IF k.arrays \in {"none", "pending"} THEN 0 ELSE 2 * a,
     EBO |-> IF k.arrays = "indexed" THEN 2 * a + 1 ELSE 0,
     VertexCount |-> IF k.arrays \in {"none", "empty"} THEN 0 ELSE 3,
     Textures |-> IF k.textured THEN Array([t \in 1..MaxTex |-> [ID |-> a * MaxTex + t]])
                  ELSE NullArray,
     TextureCount |-> IF k.textured THEN MaxTex ELSE 0,
     Program |-> IF k.arrays = "none" THEN 0 ELSE a]

RECURSIVE Flatten(_, _)
Flatten(shape, i) ==
    IF i > Len(shape) THEN <<>> ELSE shape[i].kinds \o Flatten(shape, i + 1)

\* number of meshes of the models before model i
RECURSIVE MeshesBefore(_, _)
MeshesBefore(shape, i) ==
    IF i <= 1 THEN 0 ELSE MeshesBefore(shape, i - 1) + Len(shape[i - 1].kinds)

\* mesh memory: the static triangle mesh, then the application's meshes
MeshMemory(shape) ==
    <<MeshZero>> \o [a \in 1..Len(Flatten(shape, 1)) |-> MeshAt(Flatten(shape, 1)[a], a + 1)]

ModelMemory(shape) ==
    <<ModelZero>> \o
    [i \in 1..Len(shape) |->
        [Meshes |-> IF shape[i].null THEN 0 ELSE 2 + MeshesBefore(shape, i),
         MeshCount |-> shape[i].count]]

NonZero(S) == S \ {0}

\* the context holding exactly the objects the meshes in memory name
GLFor(mem) ==
    [GLInit EXCEPT
        !.vaos = NonZero({mem[a].VAO : a \in 1..Len(mem)}),
        !.nextVao = Len(mem) + 1,
        !.buffers = NonZero({mem[a].VBO : a \in 1..Len(mem)} \cup {mem[a].EBO : a \in 1..Len(mem)}),
        !.nextBuf = 2 * Len(mem) + 2,
        !.textures = UNION {{mem[a].Textures.at[t].ID : t \in 1..mem[a].TextureCount} :
                              a \in 1..Len(mem)},
        !.nextTex = (Len(mem) + 1) * MaxTex + 1,
        !.programs = NonZero({mem[a].Program : a \in 1..Len(mem)}),
        !.linked = NonZero({mem[a].Program : a \in 1..Len(mem)}),
        !.next = Len(mem) + 1]

InitMesh ==
    \E shape \in StateShapes :
        /\ meshes = MeshMemory(shape)
        /\ models = ModelMemory(shape)
        /\ state = [StateZero EXCEPT !.Window = "window",
                                     !.Models = IF Len(shape) = 0 THEN 0 ELSE 2,
                                     !.ModelCount = Len(shape)]
        /\ gl = GLFor(MeshMemory(shape))
        /\ SKR_LAST_ERROR = ""
        /\ calls = <<>>
        /\ op = OpNone
        /\ ret = 0
        /\ env = EnvNone
        /\ input = <<>>
        /\ window = WindowReady
        /\ glfw = GlfwReady
        /\ g_skr_camera = NULL
        /\ camera = SkrDefaultFPSCamera
        /\ main = MainZero
        /\ textures = TexturesZero
        /\ images = ImagesZero

\* m_skr_gl_renderer_finalize(s) with s the null pointer or &state
RendererFinalize ==
    \E s \in {NULL, "state"} :
        /\ Commit(m_skr_gl_renderer_finalize(World, s))
        /\ ret' = 0
        /\ op' = [name |-> "finalize", s |-> s, meshesBefore |-> meshes]
        /\ UNCHANGED <<env, input, g_skr_camera, main>>

NextMesh == RendererFinalize

SpecMesh == InitMesh /\ [][NextMesh]_vars

(***************************************************************************)
(* The window library.  glfwInit and glfwCreateWindow succeed or fail as   *)
(* the library decides (env.glfwInitOk, env.windowOk).  glfwTerminate      *)
(* destroys the windows and returns the library to its uninitialised      *)
(* state; the object tables of the graphics context record explicit       *)
(* glDelete* releases only and are not touched by it.                     *)
(***************************************************************************)
\* an initialised library answers glfwInit with success at once
glfwInit(m) ==
    LET ok == m.glfw.lib = "initialized" \/ m.env.glfwInitOk IN
    [m |-> Emit(IF ok THEN [m EXCEPT !.glfw.lib = "initialized"] ELSE m, <<"glfwInit">>),
     ret |-> IF ok THEN 1 ELSE 0]

glfwCreateWindow(m) ==
    IF m.env.windowOk /\ m.glfw.lib = "initialized"
    THEN [m |-> Emit([m EXCEPT !.glfw.windows = @ \cup {m.glfw.nextWindow},
                               !.glfw.nextWindow = @ + 1],
                     <<"glfwCreateWindow", m.glfw.nextWindow>>),
          ret |-> m.glfw.nextWindow]
    ELSE [m |-> Emit(m, <<"glfwCreateWindow", 0>>), ret |-> 0]

\* variant: the call leaves the library as it is
glfwTerminate_skipped(m) == Emit(m, <<"glfwTerminate">>)

glfwTerminate(m) ==
    Emit(IF m.glfw.lib = "initialized"
         THEN [m EXCEPT !.glfw.lib = "uninitialized", !.glfw.windows = {},
                        !.glfw.current = 0, !.glfw.resizeCallback = {},
                        !.glfw.cursorCallback = {}, !.glfw.closing = {},
                        !.glfw.terminations = @ + 1]
         ELSE m,
         <<"glfwTerminate">>)

\* a call f on window h: noted as misuse when h is not a window that exists
OnWindow(m, f, h) ==
    IF h \in m.glfw.windows THEN m ELSE [m EXCEPT !.glfw.misuse = @ \cup {f}]

glfwSetFramebufferSizeCallback(m, h) ==
    Emit([OnWindow(m, "glfwSetFramebufferSizeCallback", h)
              EXCEPT !.glfw.resizeCallback = (@ \cup {h}) \cap m.glfw.windows],
         <<"glfwSetFramebufferSizeCallback", h>>)

glfwMakeContextCurrent(m, h) ==
    Emit([OnWindow(m, "glfwMakeContextCurrent", h)
              EXCEPT !.glfw.current = IF h \in m.glfw.windows THEN h ELSE @],
         <<"glfwMakeContextCurrent", h>>)

glfwSetCursorPosCallback(m, h) ==
    Emit([OnWindow(m, "glfwSetCursorPosCallback", h)
              EXCEPT !.glfw.cursorCallback = (@ \cup {h}) \cap m.glfw.windows],
         <<"glfwSetCursorPosCallback", h>>)

\* variant: the cursor callback is installed whether or not there is a camera
InstallCursorCallback_always(m, h) == glfwSetCursorPosCallback(m, h)

\* lines 765-768
InstallCursorCallback(m, h) ==
    IF g_skr_camera # NULL THEN glfwSetCursorPosCallback(m, h) ELSE m

m_skr_gl_glfw_init(m, w) ==
    Let(glfwInit(m), LAMBDA i :
    IF i.ret = 0 \/ w = NULL
    THEN [m |-> m_skr_last_error_set_with_meta(i.m, "738", "m_skr_gl_glfw_init",
                    "either glfwInit != 1 or SkrWindow == NULL"),
          ret |-> 0]
    ELSE Let(glfwCreateWindow(Emit([i.m EXCEPT !.window.GLFW = 0], <<"glfwWindowHint">>)),
             LAMBDA c :
         Let([c.m EXCEPT !.window.GLFW = c.ret], LAMBDA m1 :
         IF c.ret = 0
         THEN [m |-> glfwTerminate(m_skr_last_error_set_with_meta(
                         m1, "756", "m_skr_gl_glfw_init", "window backend is NULL")),
               ret |-> 0]
         ELSE Let(glfwSetFramebufferSizeCallback(m1, c.ret), LAMBDA m2 :
              Let(glfwMakeContextCurrent(m2, c.ret), LAMBDA m3 :
              Let(InstallCursorCallback(m3, c.ret), LAMBDA m4 :
                  [m |-> m_skr_last_error_clear(m4), ret |-> 1]))))))

SkrWindowInit(m, w) ==
    LET r == m_skr_gl_glfw_init(m, w) IN
    IF r.ret = 0 THEN [m |-> r.m, ret |-> 0] ELSE [m |-> r.m, ret |-> 1]

\* variant: the state returned on failure still names the window
SkrInit_windowKept(m, w) ==
    LET r == SkrWindowInit(m, w) IN
    [m |-> [r.m EXCEPT !.state = [StateZero EXCEPT !.Window = "window"]], ret |-> r.ret]

\* SkrInit returns the state by value; the caller stores it: state = SkrInit(w)
SkrInit(m, w) ==
    LET r == SkrWindowInit(m, w) IN
    IF r.ret = 0
    THEN [m |-> [r.m EXCEPT !.state = StateZero], ret |-> 0]
    ELSE [m |-> [r.m EXCEPT !.state = [StateZero EXCEPT !.Window = w]], ret |-> 1]

(***************************************************************************)
(* SkrTriangle and SkrFinalize.                                            *)
(***************************************************************************)
TriangleVert == GoodSource
TriangleFrag == GoodSource

TriangleShaders ==
    Array(<<[Type |-> GL_VERTEX_SHADER, Source |-> TriangleVert, Path |-> NULL],
            [Type |-> GL_FRAGMENT_SHADER, Source |-> TriangleFrag, Path |-> NULL]>>)

m_skr_gl_triangle(m) ==
    Let(m_skr_gl_create_program_from_shaders(m, TriangleShaders, 2), LAMBDA p :
    Let(glUseProgram([p.m EXCEPT !.meshes[TriMeshAddr].Program = p.ret], p.ret), LAMBDA m1 :
    Let(glGenVertexArrays(m1), LAMBDA va :
    Let(glGenBuffers([va.m EXCEPT !.meshes[TriMeshAddr].VAO = va.ret]), LAMBDA vb :
    Let(glBindVertexArray([vb.m EXCEPT !.meshes[TriMeshAddr].VBO = vb.ret], va.ret), LAMBDA m2 :
    Let(glBindBuffer(m2, "GL_ARRAY_BUFFER", vb.ret), LAMBDA m3 :
    Let(Emit(m3, <<"glBufferData", vb.ret>>), LAMBDA m4 :
    Let(glBindBuffer(m4, "GL_ARRAY_BUFFER", 0), LAMBDA m5 :
    Let(glBindVertexArray(m5, 0), LAMBDA m6 :
        [m |-> [m6 EXCEPT !.meshes[TriMeshAddr].VertexCount = 3,
                          !.models[TriModelAddr].Meshes = TriMeshAddr,
                          !.models[TriModelAddr].MeshCount = 1,
                          !.state.Models = TriModelAddr,
                          !.state.ModelCount = 1],
         ret |-> p.ret])))))))))

\* variant: the window library is never shut down
FinalizeTail_keepLibrary(m, terminate) ==
    [m EXCEPT !.state.Models = 0, !.state.ModelCount = 0, !.state.Window = NULL]

\* lines 1283-1290, reached with s->Window not null
FinalizeTail(m, terminate) ==
    [(IF terminate THEN glfwTerminate(m) ELSE m)
        EXCEPT !.state.Models = 0, !.state.ModelCount = 0, !.state.Window = NULL]

\* SkrFinalize(&state).  With s->Window null, s->Window->Backend.Type is a read
\* through a null pointer: the call crashes, or the read yields the GLFW tag or
\* another value (ub names the outcome)
SkrFinalize(m, ub) ==
    LET f == m_skr_gl_renderer_finalize(m, "state") IN
    IF f.state.Window # NULL
    THEN [m |-> FinalizeTail(f, TRUE), ret |-> "returned"]
    ELSE IF ub = "crash" THEN [m |-> f, ret |-> "crashed"]
    ELSE [m |-> FinalizeTail(f, ub = "glfw"), ret |-> "returned"]

(***************************************************************************)
(* Textures.  The image loader and its release function are supplied by    *)
(* the application: a path names an image of 1 to 4 channels or cannot be  *)
(* loaded; a loaded image is a fresh pixel buffer, live until it is freed. *)
(***************************************************************************)
ImagePaths == {"gray.png", "ga.png", "rgb.png", "rgba.png", "missing.png"}

ImageChannels(path) ==
    CASE path = "gray.png" -> 1
      [] path = "ga.png"   -> 2
      [] path = "rgb.png"  -> 3
      [] path = "rgba.png" -> 4
      [] OTHER             -> 0

m_skr_load_image_from_file(m, path) ==
    IF ImageChannels(path) = 0
    THEN [m |-> Emit(m, <<"m_skr_load_image_from_file", path, 0>>), data |-> 0, nrChannels |-> 0]
    ELSE LET b == m.images.next IN
         [m |-> Emit([m EXCEPT !.images.next = b + 1, !.images.live = @ \cup {b}],
                     <<"m_skr_load_image_from_file", path, b>>),
          data |-> b, nrChannels |-> ImageChannels(path)]

\* variant: the pixel buffer is never given back
m_skr_free_image_leak(m, data) == m

m_skr_free_image(m, data) ==
    Emit(IF data = 0 THEN m
         ELSE [m EXCEPT !.images.live = @ \ {data}, !.images.freed = Append(@, data)],
         <<"m_skr_free_image", data>>)

glBindTexture(m, id) == Emit([m EXCEPT !.gl.boundTexture = id], <<"glBindTexture", id>>)

TextureFormat(nrChannels) ==
    CASE nrChannels = 1 -> "GL_RED"
      [] nrChannels = 3 -> "GL_RGB"
      [] nrChannels = 4 -> "GL_RGBA"
      [] OTHER          -> "GL_RGB"

\* variant: the failure path gives the texture object back and zeroes the slot
LoadTextureFail_release(m, slot) ==
    [m |-> m_skr_last_error_set_with_meta(
               [glDeleteTextures(m, m.textures[slot]) EXCEPT !.textures[slot] = 0], "1186",
               "m_skr_gl_load_texture_2d_from_path", "failed to load texture"),
     ret |-> 0]

\* lines 1185-1188: the loader returned no data
LoadTextureFail(m, slot) ==
    [m |-> m_skr_last_error_set_with_meta(m, "1186",
               "m_skr_gl_load_texture_2d_from_path", "failed to load texture"),
     ret |-> 0]

\* m_skr_gl_load_texture_2d_from_path(path, &textures[slot])
m_skr_gl_load_texture_2d_from_path(m, path, slot) ==
    LET g  == glGenTextures(m)
        m1 == glBindTexture([g.m EXCEPT !.textures[slot] = g.ret], g.ret)
        m2 == Emit(Emit(Emit(Emit(m1, <<"glTexParameteri", "GL_TEXTURE_WRAP_S">>),
                             <<"glTexParameteri", "GL_TEXTURE_WRAP_T">>),
                        <<"glTexParameteri", "GL_TEXTURE_MIN_FILTER">>),
                   <<"glTexParameteri", "GL_TEXTURE_MAG_FILTER">>)
        l  == m_skr_load_image_from_file(m2, path)
    IN  IF l.data = 0
        THEN LoadTextureFail(l.m, slot)
        ELSE LET m3 == Emit(Emit(l.m, <<"glTexImage2D", TextureFormat(l.nrChannels), l.data>>),
                            <<"glGenerateMipmap">>)
             IN  [m |-> m_skr_last_error_clear(m_skr_free_image(m3, l.data)), ret |-> 1]

\* variant: a failed load does not stop the loop
RECURSIVE LoadFrom_continue(_, _, _, _)
LoadFrom_continue(m, paths, count, i) ==
    IF i >= count THEN [m |-> m_skr_last_error_clear(m), ret |-> 1]
    ELSE LoadFrom_continue(m_skr_gl_load_texture_2d_from_path(m, paths[i + 1], i + 1).m,
                           paths, count, i + 1)

\* m_skr_gl_load_textures_2d_from_paths(paths, textures, count), from index i on
RECURSIVE LoadFrom(_, _, _, _)
LoadFrom(m, paths, count, i) ==
    IF i >= count THEN [m |-> m_skr_last_error_clear(m), ret |-> 1]
    ELSE LET r == m_skr_gl_load_texture_2d_from_path(m, paths[i + 1], i + 1) IN
         IF r.ret = 0 THEN [m |-> r.m, ret |-> 0]
         ELSE LoadFrom(r.m, paths, count, i + 1)

m_skr_gl_load_textures_2d_from_paths(m, paths, count) == LoadFrom(m, paths, count, 0)

\* glDeleteTextures(count, p) with p = &textures[base]: one name after the other
RECURSIVE DeleteTextureArray(_, _, _, _)
DeleteTextureArray(m, base, count, i) ==
    IF i >= count THEN m
    ELSE DeleteTextureArray(glDeleteTextures(m, m.textures[base + i]), base, count, i + 1)

\* m_skr_free_textures_2d with m_skr_last_error_clear() moved out of the if
m_skr_free_textures_2d_alwaysClear(m, base, count) ==
    m_skr_last_error_clear(IF count > 0 /\ base # 0
                           THEN DeleteTextureArray(m, base, count, 0) ELSE m)

\* m_skr_free_textures_2d(p, count) with p null (base 0) or &textures[base]
m_skr_free_textures_2d(m, base, count) ==
    IF count > 0 /\ base # 0
    THEN m_skr_last_error_clear(DeleteTextureArray(m, base, count, 0))
    ELSE m

(***************************************************************************)
(* An application that loads and frees textures in any order.  The        *)
(* pointers it passes stay inside its array of MaxSlots texture IDs.       *)
(***************************************************************************)
PathLists == UNION {[1..n -> ImagePaths] : n \in 0..MaxSlots}

InitTex ==
    /\ SKR_LAST_ERROR \in {"", StaleError}
    /\ gl = GLInit
    /\ calls = <<>>
    /\ op = OpNone
    /\ ret = 0
    /\ env = EnvNone
    /\ input = <<>>
    /\ state = [StateZero EXCEPT !.Window = "window"]
    /\ meshes = <<MeshZero>>
    /\ models = <<ModelZero>>
    /\ window = WindowReady
    /\ glfw = GlfwReady
    /\ g_skr_camera = NULL
    /\ camera = SkrDefaultFPSCamera
    /\ main = MainZero
    /\ textures = TexturesZero
    /\ images = ImagesZero

LoadTexture ==
    /\ gl.nextTex <= MaxLoads
    /\ \E path \in ImagePaths, slot \in 1..MaxSlots :
          /\ LET r == m_skr_gl_load_texture_2d_from_path(World, path, slot) IN
             /\ Commit(r.m)
             /\ ret' = r.ret
          /\ op' = [name |-> "loadTexture", slot |-> slot, path |-> path,
                    liveBefore |-> gl.textures, errBefore |-> SKR_LAST_ERROR]
    /\ UNCHANGED <<env, input, g_skr_camera, main>>

LoadTextures ==
    \E paths \in PathLists :
        /\ gl.nextTex + Len(paths) - 1 <= MaxLoads
        /\ LET r == m_skr_gl_load_textures_2d_from_paths(World, paths, Len(paths)) IN
           /\ Commit(r.m)
           /\ ret' = r.ret
        /\ op' = [name |-> "loadTextures", paths |-> paths,
                  liveBefore |-> gl.textures, errBefore |-> SKR_LAST_ERROR]
        /\ UNCHANGED <<env, input, g_skr_camera, main>>

FreeTextures ==
    /\ \E base \in 0..MaxSlots, count \in (-1)..MaxSlots :
          /\ base + count - 1 <= MaxSlots
          /\ Commit(m_skr_free_textures_2d(World, base, count))
          /\ op' = [name |-> "freeTextures", base |-> base, count |-> count,
                    errBefore |-> SKR_LAST_ERROR, glBefore |-> gl,
                    texBefore |-> textures,
                    prev |-> [op |-> IF op.name = "freeTextures"
                                     THEN [name |-> "freeTextures"] ELSE op,
                              ret |-> ret, calls |-> calls]]
    /\ ret' = 0
    /\ UNCHANGED <<env, input, g_skr_camera, main>>

NextTex == LoadTexture \/ LoadTextures \/ FreeTextures

SpecTex == InitTex /\ [][NextTex]_vars

(***************************************************************************)
(* The application as the examples write it: SkrInit, SkrTriangle and      *)
(* SkrFinalize on one SkrWindow and one SkrState, in any order and any     *)
(* number of times.  SkrTriangle makes graphics calls and is called with   *)
(* a current context only.  A crashed process takes no further step.       *)
(***************************************************************************)
DriverEnvs == {[EnvNone EXCEPT !.linkOk = l, !.failAt = f, !.glfwInitOk = g, !.windowOk = c] :
                  l \in BOOLEAN, f \in {0, 1}, g \in BOOLEAN, c \in BOOLEAN}

Crashed == op.name = "SkrFinalize" /\ op.outcome = "crashed"

\* the meshes reached from s->Models[0 .. ModelCount-1]
MeshesOf(st, mods) ==
    UNION {IF mods[st.Models + i].Meshes = 0 THEN {}
           ELSE {mods[st.Models + i].Meshes + j : j \in 0..(mods[st.Models + i].MeshCount - 1)} :
           i \in 0..(st.ModelCount - 1)}

\* the program handles the state holds through its meshes
ProgramsOf(st, mods, mshs) == {mshs[a].Program : a \in MeshesOf(st, mods)} \ {0}

InitDriver ==
    /\ SKR_LAST_ERROR = ""
    /\ gl = GLInit
    /\ calls = <<>>
    /\ op = OpNone
    /\ ret = 0
    /\ env = EnvNone
    /\ input = <<>>
    /\ state = StateZero
    /\ meshes = [a \in {TriMeshAddr} |-> MeshZero]
    /\ models = [a \in {TriModelAddr} |-> ModelZero]
    /\ window = WindowZero
    /\ glfw = GlfwZero
    /\ g_skr_camera \in {NULL, "camera"}
    /\ camera = SkrDefaultFPSCamera
    /\ main = MainZero
    /\ textures = TexturesZero
    /\ images = ImagesZero

\* state = SkrInit(w)
DriverInit ==
    /\ ~Crashed
    /\ glfw.nextWindow <= MaxWindows
    /\ glfw.terminations < MaxWindows
    /\ \E w \in {NULL, "window"}, e \in DriverEnvs :
          /\ e.linkOk /\ e.failAt = 0
          /\ LET r == SkrInit([World EXCEPT !.env = e], w) IN
             /\ Commit(r.m)
             /\ ret' = r.ret
          /\ env' = e
    /\ op' = [name |-> "SkrInit", errBefore |-> SKR_LAST_ERROR]
    /\ UNCHANGED <<input, g_skr_camera, main>>

\* SkrTriangle(&state)
DriverTriangle ==
    /\ ~Crashed
    /\ glfw.current # 0
    /\ gl.nextVao <= MaxTriangles
    /\ \E e \in DriverEnvs :
          /\ e.glfwInitOk /\ e.windowOk
          /\ LET r == m_skr_gl_triangle([World EXCEPT !.env = e]) IN
             /\ Commit(r.m)
             /\ ret' = r.ret
          /\ env' = e
    /\ op' = [name |-> "SkrTriangle", errBefore |-> SKR_LAST_ERROR]
    /\ UNCHANGED <<input, g_skr_camera, main>>

\* SkrFinalize(&state)
DriverFinalize ==
    /\ ~Crashed
    /\ \E ub \in IF state.Window = NULL THEN {"crash", "glfw", "other"} ELSE {"glfw"} :
          LET r == SkrFinalize(World, ub) IN
          /\ Commit(r.m)
          /\ op' = [name |-> "SkrFinalize", outcome |-> r.ret,
                    programs |-> ProgramsOf(state, models, meshes)]
    /\ ret' = 0
    /\ UNCHANGED <<env, input, g_skr_camera, main>>

\* the application points g_skr_camera at its camera, or back at nothing
DriverSetCamera ==
    /\ ~Crashed
    /\ g_skr_camera' = IF g_skr_camera = NULL THEN "camera" ELSE NULL
    /\ op' = [name |-> "setCamera", errBefore |-> SKR_LAST_ERROR]
    /\ calls' = <<>>
    /\ ret' = 0
    /\ UNCHANGED <<SKR_LAST_ERROR, gl, env, input, state, meshes, models, window, glfw,
                   camera, textures, images, main>>

NextDriver == DriverInit \/ DriverTriangle \/ DriverFinalize \/ DriverSetCamera

SpecDriver == InitDriver /\ [][NextDriver]_vars

(***************************************************************************)
(* A frame.  glfwPollEvents delivers the events of env.events to the       *)
(* window whose context is current: "close" sets its close flag, "resize"  *)
(* runs the resize callback and "mouse" the cursor callback, when that     *)
(* callback is installed.  The cursor callback is noted in the trace.      *)
(***************************************************************************)
Events == {"close", "resize", "mouse"}

FrameSizes == {<<800, 600>>, <<1024, 768>>}

glfwWindowShouldClose(m, h) ==
    [m |-> Emit(OnWindow(m, "glfwWindowShouldClose", h), <<"glfwWindowShouldClose", h>>),
     ret |-> IF h \in m.glfw.closing THEN 1 ELSE 0]

glfwGetFramebufferSize(m, h) ==
    Emit(IF h \in m.glfw.windows
         THEN [m EXCEPT !.window.Width = m.env.fbSize[1], !.window.Height = m.env.fbSize[2]]
         ELSE OnWindow(m, "glfwGetFramebufferSize", h),
         <<"glfwGetFramebufferSize", h>>)

glfwSwapBuffers(m, h) == Emit(OnWindow(m, "glfwSwapBuffers", h), <<"glfwSwapBuffers", h>>)

m_skr_gl_framebuffer_size_callback(m, width, height) ==
    m_skr_last_error_clear(Emit(m, <<"glViewport", width, height>>))

m_skr_gl_glfw_framebuffer_size_callback(m, h, width, height) ==
    m_skr_last_error_clear(m_skr_gl_framebuffer_size_callback(m, width, height))

PitchLimit == 890     \* 89.0f

\* variant: the first event keeps the LastX, LastY it finds
PrimeLast_keep(c, xpos, ypos) == [c EXCEPT !.FirstMouse = FALSE]

\* lines 691-695: the first event primes LastX, LastY
PrimeLast(c, xpos, ypos) ==
    IF c.FirstMouse
    THEN [c EXCEPT !.LastX = xpos, !.LastY = ypos, !.FirstMouse = FALSE]
    ELSE c

\* variant: the pitch is left where the offset took it
ClampPitch_none(pitch) == pitch

\* lines 713-716
ClampPitch(pitch) ==
    IF pitch > PitchLimit THEN PitchLimit
    ELSE IF pitch < -PitchLimit THEN -PitchLimit
    ELSE pitch

\* the callback runs with g_skr_camera pointing at the camera: it is installed only then
\* variant: Yaw is wrapped into [-180, 180] degrees
m_skr_gl_glfw_mouse_callback_yawWrapped(m, h, xposIn, yposIn) ==
    LET c == PrimeLast(m.camera, xposIn, yposIn)
        sum == c.Yaw + (xposIn - c.LastX) * c.Sensitivity
        yaw == IF sum < -1800 THEN sum + 3600 ELSE IF sum > 1800 THEN sum - 3600 ELSE sum
        pitch == ClampPitch(c.Pitch + (c.LastY - yposIn) * c.Sensitivity)
    IN  Emit([m EXCEPT !.camera = [c EXCEPT !.LastX = xposIn, !.LastY = yposIn,
                                            !.Yaw = yaw, !.Pitch = pitch,
                                            !.Front = Direction(yaw, pitch)]],
             <<"m_skr_gl_glfw_mouse_callback", h, xposIn, yposIn>>)

\* variant: the callback also marks the camera as initialised
m_skr_gl_glfw_mouse_callback_marksInitialized(m, h, xposIn, yposIn) ==
    LET c == PrimeLast(m.camera, xposIn, yposIn)
        yaw == c.Yaw + (xposIn - c.LastX) * c.Sensitivity
        pitch == ClampPitch(c.Pitch + (c.LastY - yposIn) * c.Sensitivity)
    IN  Emit([m EXCEPT !.camera = [c EXCEPT !.LastX = xposIn, !.LastY = yposIn,
                                            !.Yaw = yaw, !.Pitch = pitch,
                                            !.Front = Direction(yaw, pitch),
                                            !.Initialized = TRUE]],
             <<"m_skr_gl_glfw_mouse_callback", h, xposIn, yposIn>>)

m_skr_gl_glfw_mouse_callback(m, h, xposIn, yposIn) ==
    LET c       == PrimeLast(m.camera, xposIn, yposIn)
        xoffset == (xposIn - c.LastX) * c.Sensitivity
        yoffset == (c.LastY - yposIn) * c.Sensitivity
        yaw     == c.Yaw + xoffset
        pitch   == ClampPitch(c.Pitch + yoffset)
    IN  Emit([m EXCEPT !.camera = [c EXCEPT !.LastX = xposIn, !.LastY = yposIn,
                                            !.Yaw = yaw, !.Pitch = pitch,
                                            !.Front = Direction(yaw, pitch)]],
             <<"m_skr_gl_glfw_mouse_callback", h, xposIn, yposIn>>)

DeliverClose(m) ==
    IF "close" \in m.env.events /\ m.glfw.current # 0
    THEN [m EXCEPT !.glfw.closing = @ \cup {m.glfw.current}]
    ELSE m

DeliverResize(m) ==
    IF "resize" \in m.env.events /\ m.glfw.current \in m.glfw.resizeCallback
    THEN m_skr_gl_glfw_framebuffer_size_callback(m, m.glfw.current,
                                                 m.env.fbSize[1], m.env.fbSize[2])
    ELSE m

DeliverMouse(m) ==
    IF "mouse" \in m.env.events /\ m.glfw.current \in m.glfw.cursorCallback
    THEN m_skr_gl_glfw_mouse_callback(m, m.glfw.current, m.env.cursor[1], m.env.cursor[2])
    ELSE m

glfwPollEvents(m) ==
    IF m.glfw.lib # "initialized"
    THEN Emit([m EXCEPT !.glfw.misuse = @ \cup {"glfwPollEvents"}], <<"glfwPollEvents">>)
    ELSE Let(Emit(m, <<"glfwPollEvents">>), LAMBDA m1 :
         Let(DeliverClose(m1), LAMBDA m2 :
         Let(DeliverResize(m2), LAMBDA m3 : DeliverMouse(m3))))

\* variant: the close flag is read but the answer is always 0
m_skr_gl_glfw_should_close_never(m, w) ==
    [glfwWindowShouldClose(m, m.window.GLFW) EXCEPT !.ret = 0]

m_skr_gl_glfw_should_close(m, w) == glfwWindowShouldClose(m, m.window.GLFW)

\* w is &window or state.Window, never null in main()
SkrWindowShouldClose(m, w) == m_skr_gl_glfw_should_close(m, w)

\* variant: every mesh is drawn
RenderMesh_unguarded(m, a) ==
    LET mesh == m.meshes[a] IN
    Let(glUseProgram(m, mesh.Program), LAMBDA m1 :
    Let(glBindVertexArray(m1, mesh.VAO), LAMBDA m2 :
        Emit(m2, <<"glDrawArrays", "GL_TRIANGLES", 0, mesh.VertexCount>>)))

\* lines 1075-1083: one mesh of the draw pass
RenderMesh(m, a) ==
    LET mesh == m.meshes[a] IN
    IF mesh.VAO = 0 \/ mesh.VertexCount = 0 THEN m
    ELSE Let(glUseProgram(m, mesh.Program), LAMBDA m1 :
         Let(glBindVertexArray(m1, mesh.VAO), LAMBDA m2 :
             Emit(m2, <<"glDrawArrays", "GL_TRIANGLES", 0, mesh.VertexCount>>)))

RECURSIVE RenderMeshes(_, _, _)
RenderMeshes(m, model, j) ==
    IF j >= model.MeshCount THEN m
    ELSE RenderMeshes(RenderMesh(m, model.Meshes + j), model, j + 1)

RECURSIVE RenderModels(_, _)
RenderModels(m, i) ==
    IF i >= m.state.ModelCount THEN m
    ELSE LET model == m.models[m.state.Models + i] IN
         IF model.Meshes = 0
         THEN RenderModels(m, i + 1)
         ELSE RenderModels(RenderMeshes(m, model, 0), i + 1)

m_skr_gl_renderer_render(m) ==
    glBindVertexArray(RenderModels(Emit(m, <<"glClear">>), 0), 0)

CallInputHandler(m) ==
    IF m.window.InputHandler # NULL THEN Emit(m, <<"InputHandler">>) ELSE m

\* variant: the buffers are swapped before the draw pass
m_skr_gl_glfw_renderer_render_swapFirst(m) ==
    Let(CallInputHandler(m), LAMBDA m1 :
    Let(glfwGetFramebufferSize(m1, m1.window.GLFW), LAMBDA m2 :
    Let(glfwSwapBuffers(m2, m2.window.GLFW), LAMBDA m3 :
    Let(m_skr_gl_renderer_render(m3), LAMBDA m4 :
        glfwPollEvents(m4)))))

m_skr_gl_glfw_renderer_render(m) ==
    Let(CallInputHandler(m), LAMBDA m1 :
    Let(glfwGetFramebufferSize(m1, m1.window.GLFW), LAMBDA m2 :
    Let(m_skr_gl_renderer_render(m2), LAMBDA m3 :
    Let(glfwSwapBuffers(m3, m3.window.GLFW), LAMBDA m4 :
        glfwPollEvents(m4)))))

\* variant: only the state pointer is tested, not s->Window
SkrRendererRender_windowUnchecked(m, s) ==
    IF s = NULL THEN m ELSE m_skr_gl_glfw_renderer_render(m)

\* SkrRendererRender(s) with s null or &state
SkrRendererRender(m, s) ==
    IF s = NULL \/ m.state.Window = NULL THEN m ELSE m_skr_gl_glfw_renderer_render(m)

glewInit(m) == [m |-> Emit(m, <<"glewInit">>), ret |-> IF m.env.glewOk THEN 1 ELSE 0]

(***************************************************************************)
(* main() of the example: SkrInit, the SKR_OK test, glewInit, optionally   *)
(* SkrTriangle, then SkrRendererRender while SkrWindowShouldClose answers  *)
(* 0, then SkrFinalize and return 0.  main.pc names the statement that     *)
(* runs next; main.lastQuery is the answer of the close query made since   *)
(* the last frame.                                                         *)
(***************************************************************************)
MainEnvs == {[EnvNone EXCEPT !.linkOk = l, !.glfwInitOk = g, !.windowOk = c, !.glewOk = w] :
                l \in BOOLEAN, g \in BOOLEAN, c \in BOOLEAN, w \in BOOLEAN}

FrameEnvs == {[EnvNone EXCEPT !.events = ev, !.fbSize = fb] :
                 ev \in SUBSET Events, fb \in FrameSizes}

InitMain ==
    /\ SKR_LAST_ERROR = ""
    /\ gl = GLInit
    /\ calls = <<>>
    /\ op = OpNone
    /\ ret = 0
    /\ env = EnvNone
    /\ input = <<>>
    /\ state = StateZero
    /\ meshes = [a \in {TriMeshAddr} |-> MeshZero]
    /\ models = [a \in {TriModelAddr} |-> ModelZero]
    /\ \E h \in {NULL, "handler"} : window = [WindowZero EXCEPT !.InputHandler = h]
    /\ glfw = GlfwZero
    /\ g_skr_camera \in {NULL, "camera"}
    /\ camera = SkrDefaultFPSCamera
    /\ textures = TexturesZero
    /\ images = ImagesZero
    /\ \E t \in BOOLEAN : main = [MainZero EXCEPT !.triangle = t]

\* SkrState state = SkrInit(&window);
MainInit ==
    /\ main.pc = "SkrInit"
    /\ \E e \in MainEnvs :
          /\ e.linkOk /\ e.glewOk
          /\ LET r == SkrInit([World EXCEPT !.env = e], "window") IN
             /\ Commit(r.m)
             /\ ret' = r.ret
          /\ env' = e
    /\ op' = [name |-> "SkrInit", errBefore |-> SKR_LAST_ERROR]
    /\ main' = [main EXCEPT !.pc = "SKR_OK"]
    /\ UNCHANGED <<input, g_skr_camera>>

\* if (!SKR_OK) return 1;
MainCheck ==
    /\ main.pc = "SKR_OK"
    /\ main' = [main EXCEPT !.pc = IF SKR_OK THEN "glewInit" ELSE "return 1"]
    /\ op' = [name |-> "SKR_OK", errBefore |-> SKR_LAST_ERROR]
    /\ calls' = <<>>
    /\ ret' = IF SKR_OK THEN 1 ELSE 0
    /\ UNCHANGED <<SKR_LAST_ERROR, gl, env, input, state, meshes, models, window, glfw,
                   g_skr_camera, camera, textures, images>>

\* if (glewInit() != GLEW_OK) return 1;
MainGlewInit ==
    /\ main.pc = "glewInit"
    /\ \E e \in MainEnvs :
          /\ e.linkOk /\ e.glfwInitOk /\ e.windowOk
          /\ LET r == glewInit([World EXCEPT !.env = e]) IN
             /\ Commit(r.m)
             /\ ret' = r.ret
             /\ main' = [main EXCEPT !.pc = IF r.ret = 0 THEN "return 1"
                                            ELSE IF main.triangle THEN "SkrTriangle"
                                            ELSE "SkrWindowShouldClose"]
          /\ env' = e
    /\ op' = [name |-> "glewInit", errBefore |-> SKR_LAST_ERROR]
    /\ UNCHANGED <<input, g_skr_camera>>

\* SkrTriangle(&state);
MainTriangle ==
    /\ main.pc = "SkrTriangle"
    /\ \E e \in MainEnvs :
          /\ e.glewOk /\ e.glfwInitOk /\ e.windowOk
          /\ LET r == m_skr_gl_triangle([World EXCEPT !.env = e]) IN
             /\ Commit(r.m)
             /\ ret' = r.ret
          /\ env' = e
    /\ op' = [name |-> "SkrTriangle", errBefore |-> SKR_LAST_ERROR]
    /\ main' = [main EXCEPT !.pc = "SkrWindowShouldClose"]
    /\ UNCHANGED <<input, g_skr_camera>>

\* variant: the loop goes on whatever the close query answers
NextAfterQuery_ignored(r) == "SkrRendererRender"

\* while (!SkrWindowShouldClose(&window))
NextAfterQuery(r) == IF r # 0 THEN "SkrFinalize" ELSE "SkrRendererRender"

MainShouldClose ==
    /\ main.pc = "SkrWindowShouldClose"
    /\ LET r == SkrWindowShouldClose(World, "window") IN
       /\ Commit(r.m)
       /\ ret' = r.ret
       /\ main' = [main EXCEPT !.pc = NextAfterQuery(r.ret),
                               !.lastQuery = IF r.ret # 0 THEN "true" ELSE "false"]
    /\ op' = [name |-> "SkrWindowShouldClose", errBefore |-> SKR_LAST_ERROR]
    /\ UNCHANGED <<env, input, g_skr_camera>>

\* SkrRendererRender(&state);
MainRender ==
    /\ main.pc = "SkrRendererRender"
    /\ \E e \in FrameEnvs :
          /\ Commit(SkrRendererRender([World EXCEPT !.env = e], "state"))
          /\ env' = e
    /\ ret' = 0
    /\ op' = [name |-> "SkrRendererRender", errBefore |-> SKR_LAST_ERROR,
              glfwBefore |-> glfw]
    /\ main' = [main EXCEPT !.pc = "SkrWindowShouldClose", !.lastQuery = "none"]
    /\ UNCHANGED <<input, g_skr_camera>>

\* SkrFinalize(&state); return 0;
MainFinalize ==
    /\ main.pc = "SkrFinalize"
    /\ \E ub \in IF state.Window = NULL THEN {"crash", "glfw", "other"} ELSE {"glfw"} :
          LET r == SkrFinalize(World, ub) IN
          /\ Commit(r.m)
          /\ op' = [name |-> "SkrFinalize", outcome |-> r.ret,
                    programs |-> ProgramsOf(state, models, meshes)]
          /\ main' = [main EXCEPT !.pc = IF r.ret = "crashed" THEN "crashed" ELSE "return 0"]
    /\ ret' = 0
    /\ UNCHANGED <<env, input, g_skr_camera>>

NextMain ==
    \/ MainInit \/ MainCheck \/ MainGlewInit \/ MainTriangle
    \/ MainShouldClose \/ MainRender \/ MainFinalize

SpecMain == InitMain /\ [][NextMain]_vars

\* the loop of main() keeps running: the close query, the frame and the teardown
\* each run when main() stands at them
SpecMainFair ==
    SpecMain /\ WF_vars(MainShouldClose) /\ WF_vars(MainRender) /\ WF_vars(MainFinalize)

(***************************************************************************)
(* An application that calls SkrInit, SkrTriangle, SkrRendererRender and   *)
(* SkrFinalize on one SkrWindow and one SkrState in any order, rendering   *)
(* also before a window exists and after the teardown, and passing         *)
(* SkrRendererRender a null pointer or &state.  op.before is the world the *)
(* call found, op.initRan says whether SkrInit has been called and op.made *)
(* holds the vertex array and buffer of each SkrTriangle call made on the  *)
(* state since it was initialised.                                         *)
(***************************************************************************)
AppFrameEnvs == {[EnvNone EXCEPT !.events = ev, !.fbSize = fb] :
                    ev \in {{}, {"close", "resize"}}, fb \in FrameSizes}

\* the vertex arrays and buffers made by the SkrTriangle calls since the last SkrInit
\* or SkrFinalize
MadeSoFar == IF op.name = "SkrFinalize" THEN {} ELSE op.made

InitApp ==
    /\ SKR_LAST_ERROR = ""
    /\ gl = GLInit
    /\ calls = <<>>
    /\ op = [name |-> "none", errBefore |-> "", initRan |-> FALSE, made |-> {}]
    /\ ret = 0
    /\ env = EnvNone
    /\ input = <<>>
    /\ state = StateZero
    /\ meshes = [a \in {TriMeshAddr} |-> MeshZero]
    /\ models = [a \in {TriModelAddr} |-> ModelZero]
    /\ \E h \in {NULL, "handler"} : window = [WindowZero EXCEPT !.InputHandler = h]
    /\ glfw = GlfwZero
    /\ g_skr_camera = NULL
    /\ camera = SkrDefaultFPSCamera
    /\ main = MainZero
    /\ textures = TexturesZero
    /\ images = ImagesZero

\* state = SkrInit(w)
AppInit ==
    /\ ~Crashed
    /\ glfw.nextWindow <= MaxWindows
    /\ glfw.terminations < MaxWindows
    /\ \E w \in {NULL, "window"}, g \in BOOLEAN, c \in BOOLEAN :
          LET e == [EnvNone EXCEPT !.glfwInitOk = g, !.windowOk = c]
              r == SkrInit(WorldWith(e), w) IN
          /\ Commit(r.m)
          /\ ret' = r.ret
          /\ env' = e
          /\ op' = [name |-> "SkrInit", errBefore |-> SKR_LAST_ERROR, w |-> w,
                    initRan |-> TRUE, made |-> {}]
    /\ UNCHANGED <<input, g_skr_camera, main>>

\* SkrTriangle(&state)
AppTriangle ==
    /\ ~Crashed
    /\ glfw.current # 0
    /\ gl.nextVao <= MaxTriangles
    /\ LET r == m_skr_gl_triangle(WorldWith(EnvNone)) IN
       /\ Commit(r.m)
       /\ ret' = r.ret
       /\ op' = [name |-> "SkrTriangle", errBefore |-> SKR_LAST_ERROR,
                 initRan |-> op.initRan,
                 made |-> MadeSoFar \cup {[VAO |-> r.m.meshes[TriMeshAddr].VAO,
                                           VBO |-> r.m.meshes[TriMeshAddr].VBO]}]
    /\ env' = EnvNone
    /\ UNCHANGED <<input, g_skr_camera, main>>

\* SkrRendererRender(s)
AppRender ==
    /\ ~Crashed
    /\ \E s \in {NULL, "state"}, e \in AppFrameEnvs :
          /\ Commit(SkrRendererRender(WorldWith(e), s))
          /\ env' = e
          /\ op' = [name |-> "SkrRendererRender", errBefore |-> SKR_LAST_ERROR,
                    s |-> s, before |-> WorldWith(e), initRan |-> op.initRan,
                    made |-> MadeSoFar]
    /\ ret' = 0
    /\ UNCHANGED <<input, g_skr_camera, main>>

\* SkrFinalize(&state)
AppFinalize ==
    /\ ~Crashed
    /\ \E ub \in IF state.Window = NULL THEN {"crash", "glfw", "other"} ELSE {"glfw"} :
          LET r == SkrFinalize(World, ub) IN
          /\ Commit(r.m)
          /\ op' = [name |-> "SkrFinalize", outcome |-> r.ret,
                    programs |-> ProgramsOf(state, models, meshes),
                    before |-> World, initRan |-> op.initRan, made |-> MadeSoFar]
    /\ ret' = 0
    /\ UNCHANGED <<env, input, g_skr_camera, main>>

NextApp == AppInit \/ AppTriangle \/ AppRender \/ AppFinalize

SpecApp == InitApp /\ [][NextApp]_vars

(***************************************************************************)
(* The error channel on its own: m_skr_last_error_set(...) from a call     *)
(* site (line, function) with a formatted message, and                     *)
(* m_skr_last_error_clear(), in any order.  The messages go from empty to  *)
(* longer than the buffer; one call site has a function name so long that  *)
(* the prefix alone does not fit.                                          *)
(***************************************************************************)
RECURSIVE Filler(_)
Filler(n) ==
    IF n = 0 THEN ""
    ELSE IF n % 2 = 0 THEN LET h == Filler(n \div 2) IN h \o h
    ELSE "x" \o Filler(n - 1)

\* the length of the prefix of a one-digit line and an empty function name
PrefixOverhead == Len(ErrorPrefix("1", ""))

\* the engine's call sites, then call sites whose prefix is two and one characters
\* shorter than the buffer, as long as the buffer, and longer
CallSites ==
    {[line |-> "738", func |-> "m_skr_gl_glfw_init"],
     [line |-> "1186", func |-> "m_skr_gl_load_texture_2d_from_path"],
     [line |-> "632", func |-> "m_skr_read_file"],
     [line |-> "1", func |-> Filler(SKR_LAST_ERROR_SIZE)]}
    \cup {[line |-> "1", func |-> Filler(SKR_LAST_ERROR_SIZE - PrefixOverhead + d)] :
             d \in {-2, -1, 0, 1}}

\* how much room the buffer has after the prefix of the shortest call site
RoomAfterPrefix == SKR_LAST_ERROR_SIZE - 1 - Len(ErrorPrefix("632", "m_skr_read_file"))

Messages ==
    {"", "e", "failed to open", "window backend is NULL"}
    \cup {Filler(n) : n \in {RoomAfterPrefix - 1, RoomAfterPrefix, RoomAfterPrefix + 1,
                             SKR_LAST_ERROR_SIZE - 1, 2 * SKR_LAST_ERROR_SIZE}}

InitErr ==
    /\ SKR_LAST_ERROR = ""
    /\ gl = GLInit
    /\ calls = <<>>
    /\ op = OpNone
    /\ ret = 0
    /\ env = EnvNone
    /\ input = <<>>
    /\ Rest

ErrSet ==
    \E site \in CallSites, msg \in Messages :
        /\ Commit(m_skr_last_error_set_with_meta(World, site.line, site.func, msg))
        /\ op' = [name |-> "set", line |-> site.line, func |-> site.func, msg |-> msg,
                  errBefore |-> SKR_LAST_ERROR]
        /\ ret' = 0
        /\ UNCHANGED <<env, input, g_skr_camera, main>>

ErrClear ==
    /\ Commit(m_skr_last_error_clear(World))
    /\ op' = [name |-> "clear", errBefore |-> SKR_LAST_ERROR]
    /\ ret' = 0
    /\ UNCHANGED <<env, input, g_skr_camera, main>>

NextErr == ErrSet \/ ErrClear

SpecErr == InitErr /\ [][NextErr]_vars

(***************************************************************************)
(* The fallible calls of the core, made one after the other by an          *)
(* application: each call finds in the error buffer whatever the call      *)
(* before it left there.  op records the call, whether it returned         *)
(* success, and what the same call leaves in a buffer that was empty; for  *)
(* a compile from a file also what m_skr_gl_create_shader returns and      *)
(* leaves in the buffer when it is given the contents of that file.        *)
(***************************************************************************)
ShaderTypes == {GL_VERTEX_SHADER, GL_FRAGMENT_SHADER, GL_GEOMETRY_SHADER,
                GL_COMPUTE_SHADER, GL_TESS_CONTROL_SHADER, GL_TESS_EVALUATION_SHADER}

FilePaths == {GoodPath, BadPath, MissingPath}

\* the batches of one descriptor, and the null batch
ChannelBatches ==
    {[shaders_input |-> NullArray, count |-> 1]}
    \cup {[shaders_input |-> Array(<<d>>), count |-> 1] :
             d \in {x \in Descriptors : x.Type = GL_VERTEX_SHADER}}

\* an image that loads and one that does not
ChannelImages == {"rgb.png", "missing.png"}

ChannelPathLists == UNION {[1..n -> ChannelImages] : n \in 0..2}

ChannelEnvs == {[EnvNone EXCEPT !.linkOk = l, !.failAt = f, !.glfwInitOk = g, !.windowOk = c] :
                   l \in BOOLEAN, f \in {0, 1}, g \in BOOLEAN, c \in BOOLEAN}


InitChannel ==
    /\ SKR_LAST_ERROR = ""
    /\ gl = GLInit
    /\ calls = <<>>
    /\ op = [name |-> "none", n |-> 0, ok |-> TRUE, errBefore |-> "", errIfEmpty |-> ""]
    /\ ret = 0
    /\ env = EnvNone
    /\ input = <<>>
    /\ Rest

\* char* buffer = m_skr_read_file(path)
ChannelReadFile ==
    /\ op.n < MaxCalls
    /\ \E path \in FilePaths, e \in ChannelEnvs :
          /\ e.linkOk /\ e.glfwInitOk /\ e.windowOk
          /\ LET r == m_skr_read_file(WorldWith(e), path) IN
             /\ Commit(r.m)
             /\ ret' = r.ret.buf
             /\ op' = [name |-> "readFile", n |-> op.n + 1, ok |-> r.ret.buf # 0,
                       errBefore |-> SKR_LAST_ERROR,
                       errIfEmpty |-> m_skr_read_file([WorldWith(e) EXCEPT !.err = ""], path).m.err]
          /\ env' = e
          /\ input' = <<path>>
    /\ UNCHANGED <<g_skr_camera, main>>

\* GLuint shader = m_skr_gl_create_shader(type, source)
ChannelCompile ==
    /\ op.n < MaxCalls
    /\ \E type \in ShaderTypes, source \in {GoodSource, BadSource} :
          /\ LET r == m_skr_gl_create_shader(World, type, source) IN
             /\ Commit(r.m)
             /\ ret' = r.ret
             /\ op' = [name |-> "compile", n |-> op.n + 1, ok |-> r.ret # 0,
                       errBefore |-> SKR_LAST_ERROR, glBefore |-> gl,
                       errIfEmpty |-> m_skr_gl_create_shader([World EXCEPT !.err = ""],
                                                             type, source).m.err]
          /\ input' = <<type, source>>
    /\ UNCHANGED <<env, g_skr_camera, main>>

\* GLuint shader = m_skr_gl_create_shader_from_file(type, path)
ChannelCompileFromFile ==
    /\ op.n < MaxCalls
    /\ \E type \in BatchTypes, path \in FilePaths, e \in ChannelEnvs :
          /\ e.linkOk /\ e.glfwInitOk /\ e.windowOk
          /\ LET r == m_skr_gl_create_shader_from_file(WorldWith(e), type, path) IN
             /\ Commit(r.m)
             /\ ret' = r.ret
             /\ op' = [name |-> "compileFromFile", n |-> op.n + 1, ok |-> r.ret # 0,
                       errBefore |-> SKR_LAST_ERROR,
                       errIfEmpty |-> m_skr_gl_create_shader_from_file(
                                          [WorldWith(e) EXCEPT !.err = ""], type, path).m.err,
                       direct |-> IF path \in DOMAIN FileContents
                                  THEN LET c == m_skr_gl_create_shader(WorldWith(e), type,
                                                                       FileContents[path])
                                       IN  [ret |-> c.ret, err |-> c.m.err]
                                  ELSE [ret |-> 0, err |-> ""]]
          /\ env' = e
          /\ input' = <<type, path>>
    /\ UNCHANGED <<g_skr_camera, main>>

\* GLuint program = m_skr_gl_create_program(shaders, count) on shaders that exist
ChannelLink ==
    /\ op.n < MaxCalls
    /\ \E shaders \in UNION {[1..n -> gl.shaders] : n \in 0..1}, e \in ChannelEnvs :
          /\ e.failAt = 0 /\ e.glfwInitOk /\ e.windowOk
          /\ LET r == m_skr_gl_create_program(WorldWith(e), shaders) IN
             /\ Commit(r.m)
             /\ ret' = r.ret
             /\ op' = [name |-> "link", n |-> op.n + 1, ok |-> r.ret # 0,
                       errBefore |-> SKR_LAST_ERROR,
                       errIfEmpty |-> m_skr_gl_create_program(
                                          [WorldWith(e) EXCEPT !.err = ""], shaders).m.err]
          /\ env' = e
          /\ input' = shaders
    /\ UNCHANGED <<g_skr_camera, main>>

\* GLuint program = m_skr_gl_create_program_from_shaders(shaders_input, count)
ChannelBuild ==
    /\ op.n < MaxCalls
    /\ \E b \in ChannelBatches, e \in ChannelEnvs :
          /\ e.glfwInitOk /\ e.windowOk
          /\ LET r == m_skr_gl_create_program_from_shaders(WorldWith(e), b.shaders_input,
                                                           b.count) IN
             /\ Commit(r.m)
             /\ ret' = r.ret
             /\ op' = [name |-> "buildProgram", n |-> op.n + 1, ok |-> r.ret # 0,
                       errBefore |-> SKR_LAST_ERROR,
                       errIfEmpty |-> m_skr_gl_create_program_from_shaders(
                                          [WorldWith(e) EXCEPT !.err = ""], b.shaders_input,
                                          b.count).m.err]
          /\ env' = e
          /\ input' = b
    /\ UNCHANGED <<g_skr_camera, main>>

\* int ok = m_skr_gl_load_texture_2d_from_path(path, &textures[slot])
ChannelLoadTexture ==
    /\ op.n < MaxCalls
    /\ \E path \in ChannelImages, slot \in {1, MaxSlots} :
          /\ LET r == m_skr_gl_load_texture_2d_from_path(World, path, slot) IN
             /\ Commit(r.m)
             /\ ret' = r.ret
             /\ op' = [name |-> "loadTexture", n |-> op.n + 1, ok |-> r.ret # 0,
                       errBefore |-> SKR_LAST_ERROR,
                       errIfEmpty |-> m_skr_gl_load_texture_2d_from_path(
                                          [World EXCEPT !.err = ""], path, slot).m.err]
          /\ input' = <<path, slot>>
    /\ UNCHANGED <<env, g_skr_camera, main>>

\* int ok = m_skr_gl_load_textures_2d_from_paths(paths, textures, count)
ChannelLoadTextures ==
    /\ op.n < MaxCalls
    /\ \E paths \in ChannelPathLists :
          /\ LET r == m_skr_gl_load_textures_2d_from_paths(World, paths, Len(paths)) IN
             /\ Commit(r.m)
             /\ ret' = r.ret
             /\ op' = [name |-> "loadTextures", n |-> op.n + 1, ok |-> r.ret # 0,
                       errBefore |-> SKR_LAST_ERROR,
                       errIfEmpty |-> m_skr_gl_load_textures_2d_from_paths(
                                          [World EXCEPT !.err = ""], paths, Len(paths)).m.err]
          /\ input' = paths
    /\ UNCHANGED <<env, g_skr_camera, main>>

\* int ok = SkrWindowInit(w)
ChannelWindowInit ==
    /\ op.n < MaxCalls
    /\ \E w \in {NULL, "window"}, e \in ChannelEnvs :
          /\ e.linkOk /\ e.failAt = 0
          /\ LET r == SkrWindowInit(WorldWith(e), w) IN
             /\ Commit(r.m)
             /\ ret' = r.ret
             /\ op' = [name |-> "windowInit", n |-> op.n + 1, ok |-> r.ret # 0,
                       errBefore |-> SKR_LAST_ERROR,
                       errIfEmpty |-> SkrWindowInit([WorldWith(e) EXCEPT !.err = ""], w).m.err]
          /\ env' = e
          /\ input' = <<w>>
    /\ UNCHANGED <<g_skr_camera, main>>

NextChannel ==
    \/ ChannelReadFile
    \/ ChannelCompile
    \/ ChannelCompileFromFile
    \/ ChannelLink
    \/ ChannelBuild
    \/ ChannelLoadTexture
    \/ ChannelLoadTextures
    \/ ChannelWindowInit

SpecChannel == InitChannel /\ [][NextChannel]_vars

(***************************************************************************)
(* The camera under the cursor: the window library calls the cursor        *)
(* callback with one cursor position after the other.  The application     *)
(* owns the camera and may have set its fields to anything before.         *)
(***************************************************************************)
CursorXs == {0, 400, 800}

\* the cursor may leave the window while it is captured
CursorYs == {-600, 0, 300, 600, 1500}

StartCameras ==
    {[SkrDefaultFPSCamera EXCEPT !.Pitch = p, !.Sensitivity = k, !.LastX = x, !.LastY = y,
                                 !.FirstMouse = f, !.Initialized = i,
                                 !.WorldUp = IF i THEN <<0, 1, 0>> ELSE @,
                                 !.Right = IF i THEN <<1, 0, 0>> ELSE @] :
        p \in {-2000, -PitchLimit, 0, 450, PitchLimit, 2000}, k \in {1, 3},
        x \in {0, 400}, y \in {300, 1500}, f \in BOOLEAN, i \in BOOLEAN}

InitCamera ==
    /\ SKR_LAST_ERROR = ""
    /\ gl = GLInit
    /\ calls = <<>>
    /\ op = OpNone
    /\ ret = 0
    /\ env = EnvNone
    /\ input = <<>>
    /\ state = [StateZero EXCEPT !.Window = "window"]
    /\ meshes = <<MeshZero>>
    /\ models = <<ModelZero>>
    /\ window = WindowReady
    /\ glfw = [GlfwReady EXCEPT !.cursorCallback = {1}]
    /\ g_skr_camera = "camera"
    /\ camera \in StartCameras
    /\ main = MainZero
    /\ textures = TexturesZero
    /\ images = ImagesZero

\* the library reports the cursor at (x, y)
MouseMove ==
    \E x \in CursorXs, y \in CursorYs :
        /\ Commit(m_skr_gl_glfw_mouse_callback(World, window.GLFW, x, y))
        /\ op' = [name |-> "onMouseMove", x |-> x, y |-> y, before |-> camera]
        /\ ret' = 0
        /\ UNCHANGED <<env, input, g_skr_camera, main>>

NextCamera == MouseMove

SpecCamera == InitCamera /\ [][NextCamera]_vars

(***************************************************************************)
(* The cursor callback over a whole run, with the history a statement      *)
(* about the run needs: op.first is the cursor position of the first event *)
(* of the run and the camera that event found, op.clamped says whether     *)
(* some event of the run so far had its pitch brought back to the limit.   *)
(***************************************************************************)
PathCameras ==
    {[SkrDefaultFPSCamera EXCEPT !.Pitch = p, !.Sensitivity = k, !.LastX = x,
                                 !.FirstMouse = f] :
        p \in {0, 450, 2000}, k \in {1, 3}, x \in {0, 400}, f \in BOOLEAN}

InitCameraPath ==
    /\ SKR_LAST_ERROR = ""
    /\ gl = GLInit
    /\ calls = <<>>
    /\ op = OpNone
    /\ ret = 0
    /\ env = EnvNone
    /\ input = <<>>
    /\ state = [StateZero EXCEPT !.Window = "window"]
    /\ meshes = <<MeshZero>>
    /\ models = <<ModelZero>>
    /\ window = WindowReady
    /\ glfw = [GlfwReady EXCEPT !.cursorCallback = {1}]
    /\ g_skr_camera = "camera"
    /\ camera \in PathCameras
    /\ main = MainZero
    /\ textures = TexturesZero
    /\ images = ImagesZero

\* the library reports the cursor at (x, y)
MouseMovePath ==
    \E x \in CursorXs, y \in CursorYs :
        LET c == PrimeLast(camera, x, y)
            raw == c.Pitch + (c.LastY - y) * c.Sensitivity
            started == op.name = "onMouseMove"
        IN  /\ Commit(m_skr_gl_glfw_mouse_callback(World, window.GLFW, x, y))
            /\ op' = [name |-> "onMouseMove", x |-> x, y |-> y, before |-> camera,
                      first |-> IF started THEN op.first
                                ELSE [x |-> x, y |-> y, camera |-> camera],
                      clamped |-> (started /\ op.clamped) \/ ClampPitch(raw) # raw]
            /\ ret' = 0
            /\ UNCHANGED <<env, input, g_skr_camera, main>>

NextCameraPath == MouseMovePath

SpecCameraPath == InitCameraPath /\ [][NextCameraPath]_vars

(***************************************************************************)
(* An application that keeps one program handle: it builds a program into  *)
(* it and destroys it, in any order and as often as it likes, passing      *)
(* m_skr_gl_shader_destroy the address of the handle or a null pointer.    *)
(* input.program is the handle; op.again says that the destroy before this *)
(* one was given the same address and released a program.                  *)
(***************************************************************************)
InitProgram ==
    /\ SKR_LAST_ERROR = ""
    /\ gl = GLInit
    /\ calls = <<>>
    /\ op = OpNone
    /\ ret = 0
    /\ env = EnvNone
    /\ input = [program |-> 0]
    /\ Rest

\* program = m_skr_gl_create_program_from_shaders(shaders_input, count)
ProgramBuild ==
    /\ gl.next < 2 * MaxBuilds
    /\ \E b \in ChannelBatches, e \in ChannelEnvs :
          /\ e.glfwInitOk /\ e.windowOk
          /\ LET r == m_skr_gl_create_program_from_shaders(WorldWith(e), b.shaders_input,
                                                           b.count) IN
             /\ Commit(r.m)
             /\ ret' = r.ret
             /\ input' = [program |-> r.ret]
          /\ env' = e
    /\ op' = [name |-> "buildProgram", errBefore |-> SKR_LAST_ERROR]
    /\ UNCHANGED <<g_skr_camera, main>>

\* m_skr_gl_shader_destroy(&program), or m_skr_gl_shader_destroy(NULL)
ProgramDestroy ==
    /\ \E null \in BOOLEAN :
          LET r == m_skr_gl_shader_destroy(World, [null |-> null,
                                                   at |-> IF null THEN 0 ELSE input.program]) IN
          /\ Commit(r.m)
          /\ input' = [program |-> IF null THEN input.program ELSE r.ret]
          /\ op' = [name |-> "destroy", null |-> null, before |-> input.program,
                    errBefore |-> SKR_LAST_ERROR, glBefore |-> gl,
                    again |-> op.name = "destroy" /\ ~null /\ ~op.null /\ op.before # 0]
    /\ ret' = 0
    /\ UNCHANGED <<env, g_skr_camera, main>>

NextProgram == ProgramBuild \/ ProgramDestroy

SpecProgram == InitProgram /\ [][NextProgram]_vars

(***************************************************************************)
(* The draw pass on its own: m_skr_gl_renderer_render on an engine state   *)
(* of models and meshes, before and after m_skr_gl_renderer_finalize.      *)
(* Besides the meshes that are uploaded or not at all, a mesh may have its *)
(* vertex array but no vertices yet ("empty"), or its vertex count but no   *)
(* vertex array yet ("pending").                                           *)
(***************************************************************************)
RenderKinds == [arrays : {"none", "plain", "empty", "pending"}, textured : {FALSE}]

RenderModelShapes ==
    {[null |-> TRUE, count |-> n, kinds |-> <<>>] : n \in {0, MaxMeshes}}
    \cup {[null |-> FALSE, count |-> Len(k), kinds |-> k] :
            k \in UNION {[1..n -> RenderKinds] : n \in 0..MaxMeshes}}

RenderStateShapes == UNION {[1..n -> RenderModelShapes] : n \in 0..MaxModels}

InitRender ==
    \E shape \in RenderStateShapes :
        /\ meshes = MeshMemory(shape)
        /\ models = ModelMemory(shape)
        /\ state = [StateZero EXCEPT !.Window = "window",
                                     !.Models = IF Len(shape) = 0 THEN 0 ELSE 2,
                                     !.ModelCount = Len(shape)]
        /\ gl = GLFor(MeshMemory(shape))
        /\ SKR_LAST_ERROR = ""
        /\ calls = <<>>
        /\ op = OpNone
        /\ ret = 0
        /\ env = EnvNone
        /\ input = <<>>
        /\ window = WindowReady
        /\ glfw = GlfwReady
        /\ g_skr_camera = NULL
        /\ camera = SkrDefaultFPSCamera
        /\ main = MainZero
        /\ textures = TexturesZero
        /\ images = ImagesZero

\* m_skr_gl_renderer_render(&state)
RenderAll ==
    /\ Commit(m_skr_gl_renderer_render(World))
    /\ ret' = 0
    /\ op' = [name |-> "render", boundBefore |-> gl.boundVao]
    /\ UNCHANGED <<env, input, g_skr_camera, main>>

\* m_skr_gl_renderer_finalize(&state)
RenderFinalize ==
    /\ Commit(m_skr_gl_renderer_finalize(World, "state"))
    /\ ret' = 0
    /\ op' = [name |-> "finalize", s |-> "state", meshesBefore |-> meshes]
    /\ UNCHANGED <<env, input, g_skr_camera, main>>

\* the application binds one of its vertex arrays
RenderBind ==
    /\ \E v \in gl.vaos : Commit(glBindVertexArray(World, v))
    /\ ret' = 0
    /\ op' = [name |-> "bind"]
    /\ UNCHANGED <<env, input, g_skr_camera, main>>

NextRender == RenderAll \/ RenderFinalize \/ RenderBind

SpecRender == InitRender /\ [][NextRender]_vars

(***************************************************************************)
(* Reading the trace of the operation that ran last.                       *)
(***************************************************************************)
IsCreateShader(c) == c[1] = "glCreateShader"

\* the shader names created by the operation, in the order of creation
CreatedShaders == [i \in 1..Len(SelectSeq(calls, IsCreateShader)) |->
                       SelectSeq(calls, IsCreateShader)[i][3]]

CreatedPrograms == {calls[i][2] : i \in CallsNamed(calls, "glCreateProgram")}

\* how often the operation called f on the name h
Times(f, h) == Cardinality({i \in CallsNamed(calls, f) : calls[i][Len(calls[i])] = h})

Range(seq) == {seq[i] : i \in 1..Len(seq)}

(***************************************************************************)
(* Which descriptor of a batch fails, from the batch and the collaborators *)
(* alone: a Source that does not compile; neither Source nor Path; a Path  *)
(* that cannot be read (no such file, or no memory for its contents) or    *)
(* whose contents do not compile.                                          *)
(***************************************************************************)
Batch == input.shaders_input.at

Neither(d) == d.Source = NULL /\ d.Path = NULL

\* the allocation that reads the file of descriptor i, when all before i compiled:
\* the handle array is the first, then one per descriptor read from a file
ReadAllocation(b, i) == 2 + Cardinality({j \in 1..(i - 1) : b[j].Source = NULL})

DescriptorFails(b, i) ==
    IF b[i].Source # NULL
    THEN b[i].Source \notin ValidSources
    ELSE \/ b[i].Path = NULL
         \/ b[i].Path \notin DOMAIN FileContents
         \/ env.failAt = ReadAllocation(b, i)
         \/ FileContents[b[i].Path] \notin ValidSources

\* the index of the first failing descriptor, 0 if every descriptor compiles
FirstFail(b) ==
    IF \E i \in 1..Len(b) : DescriptorFails(b, i)
    THEN CHOOSE i \in 1..Len(b) :
             DescriptorFails(b, i) /\ \A j \in 1..(i - 1) : ~DescriptorFails(b, j)
    ELSE 0

\* buildProgram ran on a non-empty batch and got its handle array
BuildRan ==
    /\ op.name = "buildProgram"
    /\ ~input.shaders_input.null
    /\ input.count > 0
    /\ env.failAt # 1

(***************************************************************************)
(* C1: when descriptor k is the first of the batch to fail, buildProgram   *)
(* returns 0, each shader compiled for the descriptors before k has been   *)
(* deleted exactly once, and no shader created by the call is live.        *)
(***************************************************************************)
C1_PartialFailureCleanup ==
    (BuildRan /\ FirstFail(Batch) # 0) =>
        /\ ret = 0
        /\ Len(CreatedShaders) >= FirstFail(Batch) - 1
        /\ \A i \in 1..(FirstFail(Batch) - 1) : Times("glDeleteShader", CreatedShaders[i]) = 1
        /\ Range(CreatedShaders) \cap gl.shaders = {}
        /\ gl.stale = {}

C1_Witness ==
    /\ BuildRan
    /\ FirstFail(Batch) = 2
    /\ ret = 0
    /\ Len(CreatedShaders) >= 1
    /\ Times("glDeleteShader", CreatedShaders[1]) = 1

(***************************************************************************)
(* C2: whenever buildProgram returns 0 the error channel is non-empty.     *)
(***************************************************************************)
C2_FailureLeavesError ==
    (op.name = "buildProgram" /\ ret = 0) => SKR_LAST_ERROR # ""

(***************************************************************************)
(* C3: when the first failing descriptor of the batch has neither Source   *)
(* nor Path, buildProgram returns 0 and the error channel is non-empty.    *)
(***************************************************************************)
C3_NeitherSourceNorPath ==
    \A k \in 1..MaxBatch :
        (/\ op.name = "buildProgram"
         /\ ~input.shaders_input.null
         /\ k <= input.count
         /\ FirstFail(Batch) = k
         /\ Neither(Batch[k]))
        => (ret = 0 /\ SKR_LAST_ERROR # "")

C3_Witness ==
    /\ BuildRan
    /\ FirstFail(Batch) = 2
    /\ Neither(Batch[2])
    /\ op.errBefore = ""
    /\ ret = 0
    /\ SKR_LAST_ERROR # ""

(***************************************************************************)
(* C4: when every descriptor of a non-empty batch compiles and the link    *)
(* succeeds, buildProgram returns a nonzero program handle and the error   *)
(* channel is empty, whatever it held before the call.                     *)
(***************************************************************************)
C4_SuccessClearsChannel ==
    (BuildRan /\ FirstFail(Batch) = 0 /\ env.linkOk) =>
        (ret # 0 /\ ret \in gl.programs /\ SKR_LAST_ERROR = "")

C4_Witness ==
    /\ BuildRan
    /\ input.count = 2
    /\ op.errBefore # ""
    /\ ret # 0
    /\ SKR_LAST_ERROR = ""

(***************************************************************************)
(* C5: after a successful link every shader handed to the linker has been  *)
(* detached from the program once and deleted once; only the program is    *)
(* live.                                                                   *)
(***************************************************************************)
C5_LinkConsumesShaders ==
    (op.name = "buildProgram" /\ ret # 0) =>
        /\ Len(CreatedShaders) = input.count
        /\ \A h \in Range(CreatedShaders) :
              /\ Times("glDetachShader", h) = 1
              /\ Times("glDeleteShader", h) = 1
        /\ gl.shaders = {}
        /\ gl.attached = {}
        /\ gl.programs = {ret}
        /\ gl.stale = {}

C5_Witness ==
    /\ op.name = "buildProgram"
    /\ ret # 0
    /\ Len(CreatedShaders) = 2
    /\ gl.shaders = {}

(***************************************************************************)
(* C6: when the link fails the new program is deleted, 0 is returned with  *)
(* a non-empty error channel, no shader is detached or deleted by the      *)
(* linker or by buildProgram, and the compiled shaders stay live.          *)
(***************************************************************************)
LinkFailed == op.name = "buildProgram" /\ CallsNamed(calls, "glLinkProgram") # {} /\ ~env.linkOk

C6_LinkFailureLeaksShaders ==
    LinkFailed =>
        /\ ret = 0
        /\ SKR_LAST_ERROR # ""
        /\ \A p \in CreatedPrograms : p \notin gl.programs /\ Times("glDeleteProgram", p) = 1
        /\ CallsNamed(calls, "glDetachShader") = {}
        /\ CallsNamed(calls, "glDeleteShader") = {}
        /\ Len(CreatedShaders) = input.count
        /\ Range(CreatedShaders) \subseteq gl.shaders

C6_Witness ==
    /\ LinkFailed
    /\ ret = 0
    /\ Cardinality(gl.shaders) = 2
    /\ gl.programs = {}

(***************************************************************************)
(* The meshes the teardown visits: those in the arrays of the models of    *)
(* the state whose mesh array is not null.                                 *)
(***************************************************************************)
VisitedMeshes == MeshesOf(state, models)

FinalizeRan == op.name = "finalize" /\ op.s # NULL

CallArgs(f) == {calls[i][2] : i \in CallsNamed(calls, f)}

(***************************************************************************)
(* C7: over any sequence of m_skr_gl_renderer_finalize calls no handle     *)
(* owned by a mesh is released a second time: no release call is ever      *)
(* issued for a name that is no longer live.                               *)
(***************************************************************************)
C7_NoSecondRelease == gl.stale = {}

(***************************************************************************)
(* C8: after m_skr_gl_renderer_finalize every visited mesh has VAO, VBO,   *)
(* EBO and program 0; a vertex-array or buffer release is issued exactly   *)
(* for the handles that were nonzero, so a teardown of zeroed meshes       *)
(* issues none.                                                            *)
(***************************************************************************)
C8_FinalizeZeroesHandles ==
    FinalizeRan =>
        /\ \A a \in VisitedMeshes :
              /\ meshes[a].VAO = 0 /\ meshes[a].VBO = 0 /\ meshes[a].EBO = 0
              /\ meshes[a].Program = 0
        /\ 0 \notin CallArgs("glDeleteVertexArrays") \cup CallArgs("glDeleteBuffers")
        /\ CallArgs("glDeleteVertexArrays") = NonZero({op.meshesBefore[a].VAO : a \in VisitedMeshes})
        /\ CallArgs("glDeleteBuffers") =
               NonZero({op.meshesBefore[a].VBO : a \in VisitedMeshes}
                       \cup {op.meshesBefore[a].EBO : a \in VisitedMeshes})
        /\ Cardinality(CallsNamed(calls, "glDeleteVertexArrays")) =
               Cardinality(CallArgs("glDeleteVertexArrays"))
        /\ Cardinality(CallsNamed(calls, "glDeleteBuffers")) =
               Cardinality(CallArgs("glDeleteBuffers"))

\* a second teardown: a mesh that was uploaded (it still has its 3 vertices) is
\* visited with its handles already zero, and no release is issued
C8_Witness ==
    /\ FinalizeRan
    /\ \E a \in VisitedMeshes : op.meshesBefore[a].VertexCount = 3 /\ op.meshesBefore[a].VAO = 0
    /\ CallsNamed(calls, "glDeleteVertexArrays") = {}
    /\ CallsNamed(calls, "glDeleteBuffers") = {}

RoundTrip ==
    /\ op.name = "freeTextures"
    /\ op.prev.op.name = "loadTexture"
    /\ op.prev.ret = 1
    /\ op.base = op.prev.op.slot
    /\ op.count = 1

LoadedImages(trace) == {trace[i][3] : i \in CallsNamed(trace, "m_skr_load_image_from_file")}

C10_TextureRoundTrip ==
    RoundTrip =>
        /\ Cardinality(gl.textures) = Cardinality(op.prev.op.liveBefore)
        /\ \A b \in LoadedImages(op.prev.calls) :
              /\ b \notin images.live
              /\ Cardinality({i \in 1..Len(images.freed) : images.freed[i] = b}) = 1

\* the round trip ran on top of a texture that was already live
C10_Witness ==
    /\ RoundTrip
    /\ LoadedImages(op.prev.calls) # {}
    /\ op.prev.op.liveBefore # {}
    /\ gl.textures = op.prev.op.liveBefore
    /\ CallArgs("glDeleteTextures") = {textures[op.base]}

(***************************************************************************)
(* C11: when the image loader returns no data,                             *)
(* m_skr_gl_load_texture_2d_from_path returns 0 with a non-empty error     *)
(* channel; the texture object it generated is not released: it is live    *)
(* and its name is in the caller's output slot.                            *)
(***************************************************************************)
LoadRan == op.name = "loadTexture"

C11_LoadFailureKeepsTexture ==
    (LoadRan /\ ImageChannels(op.path) = 0) =>
        /\ ret = 0
        /\ ~SKR_OK
        /\ Cardinality(CallsNamed(calls, "glGenTextures")) = 1
        /\ CallsNamed(calls, "glDeleteTextures") = {}
        /\ CallArgs("glGenTextures") = {textures[op.slot]}
        /\ textures[op.slot] \in gl.textures
        /\ gl.textures = op.liveBefore \cup {textures[op.slot]}

\* the load failed with the channel empty before and another texture already live
C11_Witness ==
    /\ LoadRan
    /\ op.path = "missing.png"
    /\ op.errBefore = ""
    /\ op.liveBefore # {}
    /\ ret = 0
    /\ textures[op.slot] \in gl.textures \ op.liveBefore

(***************************************************************************)
(* C12: m_skr_gl_load_textures_2d_from_paths works in index order and      *)
(* stops at the first failure.  With k the first index whose load fails    *)
(* it returns 0 with a non-empty channel, the loader was asked for         *)
(* paths[0..k] in that order and for no later path, one texture was        *)
(* generated per index 0..k and none beyond, and every one of them is      *)
(* still live in its slot.  With no failing path it returns 1 with an      *)
(* empty channel and a live texture per path.                              *)
(***************************************************************************)
LoadAllRan == op.name = "loadTextures"

FailingIndices(paths) == {i \in 1..Len(paths) : ImageChannels(paths[i]) = 0}

\* the number of paths the loop gets to: up to and including the first failing one
Visited(paths) ==
    IF FailingIndices(paths) = {} THEN Len(paths)
    ELSE CHOOSE k \in FailingIndices(paths) : \A i \in FailingIndices(paths) : k <= i

LoaderCalls == [i \in 1..Cardinality(CallsNamed(calls, "m_skr_load_image_from_file")) |->
                   LET at == CHOOSE j \in CallsNamed(calls, "m_skr_load_image_from_file") :
                                 Cardinality({h \in CallsNamed(calls, "m_skr_load_image_from_file") :
                                                 h < j}) = i - 1
                   IN  calls[at][2]]

C12_StopsAtFirstFailure ==
    LoadAllRan =>
        LET n == Visited(op.paths) IN
        /\ ret = (IF FailingIndices(op.paths) = {} THEN 1 ELSE 0)
        /\ SKR_OK <=> FailingIndices(op.paths) = {}
        /\ LoaderCalls = SubSeq(op.paths, 1, n)
        /\ Cardinality(CallsNamed(calls, "glGenTextures")) = n
        /\ CallsNamed(calls, "glDeleteTextures") = {}
        /\ \A i \in 1..n : textures[i] \in gl.textures \ op.liveBefore
        /\ gl.textures = op.liveBefore \cup {textures[i] : i \in 1..n}
        /\ Cardinality(gl.textures) = Cardinality(op.liveBefore) + n

\* the first path loads, the second does not, and the channel was empty before
C12_Witness ==
    /\ LoadAllRan
    /\ Len(op.paths) = MaxSlots
    /\ FailingIndices(op.paths) # {}
    /\ Visited(op.paths) > 1
    /\ op.errBefore = ""
    /\ ret = 0
    /\ textures[1] \in gl.textures

(***************************************************************************)
(* C13: after a window init that returned 0, for whichever reason, the     *)
(* window library is not initialised and no native window exists.          *)
(***************************************************************************)
InitRan == op.name = "SkrInit"

C13_FailedInitTearsDown ==
    (InitRan /\ ret = 0) => (glfw.lib = "uninitialized" /\ glfw.windows = {})

(***************************************************************************)
(* C14: when glfwInit succeeds and glfwCreateWindow returns no window,     *)
(* window init calls glfwTerminate once, returns 0, leaves the window's    *)
(* backend handle null and the error channel non-empty; it installs no     *)
(* callback and makes no context current.                                  *)
(***************************************************************************)
CreationFailed == InitRan /\ <<"glfwCreateWindow", 0>> \in Range(calls)

C14_CreationFailureTearsDown ==
    CreationFailed =>
        /\ ret = 0
        /\ ~SKR_OK
        /\ window.GLFW = 0
        /\ Cardinality(CallsNamed(calls, "glfwTerminate")) = 1
        /\ glfw.lib = "uninitialized"
        /\ glfw.windows = {} /\ glfw.current = 0
        /\ glfw.resizeCallback = {} /\ glfw.cursorCallback = {}
        /\ CallsNamed(calls, "glfwSetFramebufferSizeCallback") = {}
        /\ CallsNamed(calls, "glfwSetCursorPosCallback") = {}
        /\ CallsNamed(calls, "glfwMakeContextCurrent") = {}

\* creation failed with a camera installed and the channel empty before the call
C14_Witness ==
    /\ CreationFailed
    /\ g_skr_camera # NULL
    /\ op.errBefore = ""
    /\ ~SKR_OK
    /\ glfw.terminations = 1

(***************************************************************************)
(* C15: after a successful window init the new window has the resize       *)
(* callback, its context is current and the error channel is empty; it     *)
(* has the cursor callback exactly when g_skr_camera was not null during   *)
(* the call.  Pointing g_skr_camera at a camera later installs nothing.    *)
(***************************************************************************)
InitSucceeded == InitRan /\ ret = 1

CallbacksAfterInit ==
    InitSucceeded =>
        /\ window.GLFW \in glfw.windows
        /\ window.GLFW \in glfw.resizeCallback
        /\ glfw.current = window.GLFW
        /\ SKR_OK
        /\ window.GLFW \in glfw.cursorCallback <=> g_skr_camera # NULL

CameraSetLater == op'.name = "setCamera" => glfw'.cursorCallback = glfw.cursorCallback

C15_CallbacksAfterInit == [](CallbacksAfterInit) /\ [][CameraSetLater]_vars

\* the camera was installed after a successful init: the window has no cursor callback
C15_Witness ==
    /\ op.name = "setCamera"
    /\ g_skr_camera # NULL
    /\ window.GLFW \in glfw.windows
    /\ glfw.current = window.GLFW
    /\ window.GLFW \in glfw.resizeCallback
    /\ window.GLFW \notin glfw.cursorCallback

(***************************************************************************)
(* C16: every frame of m_skr_gl_glfw_renderer_render runs in the order     *)
(* input handler (if installed), event poll, framebuffer-size query,       *)
(* clear, draw pass, buffer swap: the poll comes before the size query     *)
(* and before the swap of the same frame.                                  *)
(***************************************************************************)
FrameRan == op.name = "SkrRendererRender" /\ calls # <<>>

First(f) == CHOOSE i \in CallsNamed(calls, f) : \A j \in CallsNamed(calls, f) : i <= j

Once(f) == Cardinality(CallsNamed(calls, f)) = 1

C16_FrameOrder ==
    FrameRan =>
        /\ Once("glfwPollEvents") /\ Once("glfwGetFramebufferSize")
        /\ Once("glClear") /\ Once("glfwSwapBuffers")
        /\ \A i \in CallsNamed(calls, "InputHandler") : i < First("glfwPollEvents")
        /\ First("glfwPollEvents") < First("glfwGetFramebufferSize")
        /\ First("glfwGetFramebufferSize") < First("glClear")
        /\ \A i \in CallsNamed(calls, "glDrawArrays") :
              First("glClear") < i /\ i < First("glfwSwapBuffers")
        /\ First("glClear") < First("glfwSwapBuffers")
        /\ First("glfwPollEvents") < First("glfwSwapBuffers")

(***************************************************************************)
(* C17: in main(), once SkrInit has succeeded, the window library is shut  *)
(* down exactly once, by SkrFinalize; nothing runs after it, and no call   *)
(* is ever made on a window that does not exist or on a library that is    *)
(* not initialised.                                                        *)
(***************************************************************************)
InitFailedInMain == main.pc \in {"SKR_OK", "return 1"} /\ ~SKR_OK

C17_TerminatedOnce ==
    /\ glfw.misuse = {}
    /\ glfw.terminations <= 1
    /\ main.pc = "return 0" =>
          /\ glfw.terminations = 1
          /\ glfw.lib = "uninitialized"
          /\ op.name = "SkrFinalize"
          /\ Once("glfwTerminate")
    /\ (glfw.terminations > 0 /\ ~InitFailedInMain) =>
          (main.pc = "return 0" /\ op.name = "SkrFinalize")

\* main() returned 0 after drawing the triangle in a resized window
C17_Witness ==
    /\ main.pc = "return 0"
    /\ glfw.terminations = 1
    /\ window.Width = 1024
    /\ gl.vaos # {} \/ gl.nextVao > 1

(***************************************************************************)
(* C18: the loop of main() ends only through the close flag.  SkrFinalize  *)
(* is reached only from a close query that answered true; every frame is   *)
(* rendered right after one close query that answered false; and if the    *)
(* close flag is eventually set for good, main() eventually returns.       *)
(***************************************************************************)
CloseFlag == window.GLFW # 0 /\ window.GLFW \in glfw.closing

FinalizeAfterTrueQuery == main.pc \in {"SkrFinalize", "return 0"} => main.lastQuery = "true"

QueryBeforeFrame ==
    /\ op'.name = "SkrRendererRender" =>
          (op.name = "SkrWindowShouldClose" /\ ret = 0 /\ main.lastQuery = "false")
    /\ op'.name = "SkrWindowShouldClose" => op.name # "SkrWindowShouldClose"
    /\ op'.name = "SkrFinalize" => (op.name = "SkrWindowShouldClose" /\ ret # 0)

C18_LoopEndsThroughCloseFlag ==
    /\ [](FinalizeAfterTrueQuery)
    /\ [][QueryBeforeFrame]_vars
    /\ (<>[]CloseFlag) => <>(main.pc = "return 0")

\* the close flag was set by the poll of a frame, the next query answered true
C18_Witness ==
    /\ main.pc = "SkrFinalize"
    /\ main.lastQuery = "true"
    /\ CloseFlag
    /\ op.name = "SkrWindowShouldClose"
    /\ ret = 1

(***************************************************************************)
(* C19: a native window only moves forward through Uninitialized (not yet  *)
(* created), Created, Closing (close flag set) and Terminated (destroyed). *)
(* It becomes Created only in a successful init, Terminated only in        *)
(* SkrFinalize, and a frame is rendered only on a window that is Created.  *)
(***************************************************************************)
Lifecycle(g, h) ==
    IF h >= g.nextWindow THEN 0
    ELSE IF h \notin g.windows THEN 3
    ELSE IF h \in g.closing THEN 2
    ELSE 1

Handles == 1..(MaxWindows + 1)

LifecycleStep ==
    /\ \A h \in Handles :
          /\ Lifecycle(glfw', h) >= Lifecycle(glfw, h)
          /\ (Lifecycle(glfw, h) = 0 /\ Lifecycle(glfw', h) # 0) =>
                (op'.name = "SkrInit" /\ ret' = 1 /\ Lifecycle(glfw', h) = 1
                 /\ window'.GLFW = h)
          /\ (Lifecycle(glfw, h) # 3 /\ Lifecycle(glfw', h) = 3) => op'.name = "SkrFinalize"
    /\ (op'.name = "SkrRendererRender" /\ calls' # <<>>) => Lifecycle(glfw, window.GLFW) = 1

SetRan == op.name = "set"

PrefixFits == Len(ErrorPrefix(op.line, op.func)) < SKR_LAST_ERROR_SIZE

C20_SetThenRead ==
    /\ op.name = "clear" => SKR_OK
    /\ SetRan =>
          /\ Len(SKR_LAST_ERROR) <= SKR_LAST_ERROR_SIZE - 1
          /\ PrefixFits =>
                /\ SKR_LAST_ERROR =
                       Take(ErrorPrefix(op.line, op.func) \o op.msg, SKR_LAST_ERROR_SIZE - 1)
                /\ ~SKR_OK
          /\ ~PrefixFits =>
                /\ SKR_LAST_ERROR = Take(op.msg, SKR_LAST_ERROR_SIZE - 1)
                /\ SKR_OK <=> op.msg = ""

\* a message one character too long for the room after the prefix, set over an
\* earlier error: it is stored without its last character
C20_Witness ==
    /\ SetRan
    /\ op.errBefore # ""
    /\ op.func = "m_skr_read_file"
    /\ Len(op.msg) = RoomAfterPrefix + 1
    /\ Len(SKR_LAST_ERROR) = SKR_LAST_ERROR_SIZE - 1
    /\ SKR_LAST_ERROR = ErrorPrefix(op.line, op.func) \o Filler(RoomAfterPrefix)

\* C20 as stated: the string read after set(message) is the message itself, cut
\* to the capacity, and SKR_OK is false
C20_ReadsExactMessage ==
    /\ op.name = "clear" => SKR_OK
    /\ SetRan => (SKR_LAST_ERROR = Take(op.msg, SKR_LAST_ERROR_SIZE - 1) /\ ~SKR_OK)

(***************************************************************************)
(* C21: the error channel is a single slot.  Whenever readFile, compile,   *)
(* link, buildProgram, createTexture2DFromPath, createTextures2DFromPaths  *)
(* or window init returns success the channel is empty on return, even if  *)
(* the call before had left an error in it; and what any of these calls    *)
(* leaves in the channel is what it leaves in an empty channel, so SKR_OK  *)
(* never depends on an earlier call.                                       *)
(***************************************************************************)
SingleSlotCalls == {"readFile", "compile", "link", "buildProgram", "loadTexture",
                    "loadTextures", "windowInit"}

C21_SingleSlot ==
    op.name \in SingleSlotCalls =>
        /\ op.ok => SKR_LAST_ERROR = ""
        /\ SKR_LAST_ERROR = op.errIfEmpty

\* every one of the calls has returned success on a channel that held an error
C21_WitnessFor(name) == op.name = name /\ op.ok /\ op.errBefore # "" /\ SKR_LAST_ERROR = ""

C21_Witness == C21_WitnessFor("readFile")

(***************************************************************************)
(* C22: the first cursor event, the one that finds FirstMouse true, adds   *)
(* zero to Yaw and zero to Pitch before the clamp, whatever the position   *)
(* and whatever LastX, LastY held; it stores the position in LastX, LastY  *)
(* and sets FirstMouse to false.  FirstMouse never becomes true again.     *)
(***************************************************************************)
MouseMoved == op.name = "onMouseMove"

\* p brought into [-89, 89] degrees
Saturated(p) == IF p > 890 THEN 890 ELSE IF p < -890 THEN -890 ELSE p

FirstEventAddsNothing ==
    (MouseMoved /\ op.before.FirstMouse) =>
        /\ camera.Yaw = op.before.Yaw
        /\ camera.Pitch = Saturated(op.before.Pitch)
        /\ camera.LastX = op.x /\ camera.LastY = op.y
        /\ ~camera.FirstMouse

FirstMouseStaysFalse == ~camera.FirstMouse => ~camera'.FirstMouse

C22_FirstMouseEvent == [](FirstEventAddsNothing) /\ [][FirstMouseStaysFalse]_vars

\* a first event away from the primed position, on a camera whose pitch is in range
C22_Witness ==
    /\ MouseMoved /\ op.before.FirstMouse
    /\ op.x # op.before.LastX /\ op.y # op.before.LastY
    /\ op.before.Pitch = 450 /\ camera.Pitch = 450

(***************************************************************************)
(* C23: after every cursor event Pitch lies in [-89, 89] degrees, whatever *)
(* it was before and wherever the cursor went: a pitch that the event      *)
(* takes above 89 is left at exactly 89, one taken below -89 at exactly    *)
(* -89, and any other is left where the event took it.                     *)
(***************************************************************************)
\* the pitch the event asks for: the old one plus the upward cursor travel
RawPitch ==
    LET lastY == IF op.before.FirstMouse THEN op.y ELSE op.before.LastY
    IN  op.before.Pitch + (lastY - op.y) * op.before.Sensitivity

C23_PitchClamped ==
    MouseMoved =>
        /\ camera.Pitch >= -890 /\ camera.Pitch <= 890
        /\ camera.Pitch = Saturated(RawPitch)

\* upward travel that adds up: the pitch was already raised and this event takes it past 89
C23_Witness ==
    /\ MouseMoved /\ ~op.before.FirstMouse
    /\ op.before.Pitch > 0 /\ op.before.Pitch < 890
    /\ RawPitch > 890 /\ camera.Pitch = 890

\* the same downwards
C23_WitnessDown ==
    /\ MouseMoved /\ ~op.before.FirstMouse
    /\ op.before.Pitch < 0 /\ op.before.Pitch > -890
    /\ RawPitch < -890 /\ camera.Pitch = -890

(***************************************************************************)
(* C24: SkrInit reports its outcome through the error channel.  After      *)
(* state = SkrInit(w), SKR_OK is true exactly when the window was          *)
(* initialised; then the state has Window = w and neither models nor       *)
(* programs.  Otherwise SKR_OK is false and the state is all zero, its     *)
(* Window null.                                                            *)
(***************************************************************************)
\* the call created a native window
WindowCreated == \E i \in CallsNamed(calls, "glfwCreateWindow") : calls[i][2] # 0

C24_InitReportsThroughChannel ==
    InitRan =>
        /\ SKR_OK <=> ret = 1
        /\ SKR_OK <=> WindowCreated
        /\ SKR_OK => state = [Window |-> "window", Models |-> 0, ModelCount |-> 0,
                              Programs |-> 0, ProgramCount |-> 0]
        /\ ~SKR_OK => state = [Window |-> NULL, Models |-> 0, ModelCount |-> 0,
                               Programs |-> 0, ProgramCount |-> 0]

\* a successful SkrInit that found an error in the channel
C24_Witness == InitRan /\ ret = 1 /\ op.errBefore # "" /\ SKR_OK

\* a failed SkrInit on a state that had a window before
C24_WitnessFailure == InitRan /\ ret = 0 /\ ~SKR_OK /\ glfw.terminations > 0

(***************************************************************************)
(* C25: m_skr_gl_shader_destroy is idempotent.  With the address of a      *)
(* nonzero handle it releases that program once and sets the handle to 0.  *)
(* With a null pointer or a zero handle it makes no call and changes       *)
(* nothing, the error channel included.  So the second of two destroys in  *)
(* a row releases nothing, and no program is ever released twice.          *)
(***************************************************************************)
DestroyRan == op.name = "destroy"

C25_DestroyIdempotent ==
    /\ gl.stale = {}
    /\ DestroyRan =>
          IF ~op.null /\ op.before # 0
          THEN /\ calls = << <<"glDeleteProgram", op.before>> >>
               /\ op.before \notin gl.programs
               /\ input.program = 0
          ELSE /\ calls = <<>>
               /\ input.program = op.before
               /\ SKR_LAST_ERROR = op.errBefore
               /\ gl = op.glBefore
    /\ (DestroyRan /\ op.again) => (calls = <<>> /\ input.program = 0)

\* the second destroy of a program that the first one released
C25_Witness == DestroyRan /\ op.again /\ calls = <<>> /\ input.program = 0

\* a destroy of a zero handle that leaves an error in the channel
C25_WitnessChannel == DestroyRan /\ ~op.null /\ op.before = 0 /\ SKR_LAST_ERROR # ""

(***************************************************************************)
(* C26: Source takes precedence over Path.  buildProgram compiles the      *)
(* Source of every descriptor that has one and opens no file for it, also  *)
(* when the descriptor has a Path; it opens the Path of a descriptor only  *)
(* when that descriptor has no Source.                                     *)
(***************************************************************************)
\* the descriptors the loop visits: all of them, or those up to the first that fails
VisitedDescriptors ==
    SubSeq(Batch, 1, IF FirstFail(Batch) = 0 THEN Len(Batch) ELSE FirstFail(Batch))

HasNoSource(d) == d.Source = NULL /\ d.Path # NULL

HasSource(d) == d.Source # NULL

IsOpen(c) == c[1] = "fopen"

IsCompile(c) == c[1] = "glCompileShader"

\* the files opened by the operation, in order
OpenedPaths == [i \in 1..Len(SelectSeq(calls, IsOpen)) |-> SelectSeq(calls, IsOpen)[i][2]]

\* the texts compiled by the operation, in order
CompiledTexts ==
    [i \in 1..Len(SelectSeq(calls, IsCompile)) |-> SelectSeq(calls, IsCompile)[i][3]]

C26_SourceTakesPrecedence ==
    BuildRan =>
        /\ OpenedPaths = [i \in 1..Len(SelectSeq(VisitedDescriptors, HasNoSource)) |->
                             SelectSeq(VisitedDescriptors, HasNoSource)[i].Path]
        /\ Len(CompiledTexts) <= Len(VisitedDescriptors)
        /\ \A i \in 1..Len(VisitedDescriptors) :
              HasSource(VisitedDescriptors[i]) => i <= Len(CompiledTexts)
        /\ \A i \in 1..Len(CompiledTexts) :
              /\ HasSource(VisitedDescriptors[i]) => CompiledTexts[i] = VisitedDescriptors[i].Source
              /\ ~HasSource(VisitedDescriptors[i]) =>
                    CompiledTexts[i] = FileContents[VisitedDescriptors[i].Path]

\* a batch whose descriptors all have a Source and a Path, with files that do not
\* compile or do not exist, builds a program without opening a file
C26_Witness ==
    /\ BuildRan /\ ret # 0
    /\ Len(Batch) = MaxBatch
    /\ \A i \in 1..Len(Batch) : Batch[i].Source = GoodSource /\ Batch[i].Path \in {BadPath, MissingPath}
    /\ OpenedPaths = <<>>

(***************************************************************************)
(* C27: the draw pass issues one non-indexed triangle draw for each mesh   *)
(* whose VAO is nonzero and whose VertexCount is nonzero, in model order   *)
(* and then mesh order, each draw right after binding that mesh's program  *)
(* and its VAO.  It draws no other mesh and nothing of a model without a   *)
(* mesh array, and the vertex array binding is 0 when it returns.          *)
(***************************************************************************)
RenderRan == op.name = "render"

Drawable(mesh) == mesh.VAO # 0 /\ mesh.VertexCount # 0

\* the calls the pass has to make for the meshes j, j+1, ... of a model
RECURSIVE DrawsOfModel(_, _)
DrawsOfModel(model, j) ==
    IF model.Meshes = 0 \/ j >= model.MeshCount THEN <<>>
    ELSE LET mesh == meshes[model.Meshes + j] IN
         (IF Drawable(mesh)
          THEN << <<"glUseProgram", mesh.Program>>, <<"glBindVertexArray", mesh.VAO>>,
                  <<"glDrawArrays", "GL_TRIANGLES", 0, mesh.VertexCount>> >>
          ELSE <<>>) \o DrawsOfModel(model, j + 1)

\* ... and for the models i, i+1, ... of the state
RECURSIVE DrawsOfState(_)
DrawsOfState(i) ==
    IF i >= state.ModelCount THEN <<>>
    ELSE DrawsOfModel(models[state.Models + i], 0) \o DrawsOfState(i + 1)

C27_WitnessNoArray ==
    /\ RenderRan
    /\ Cardinality(CallsNamed(calls, "glDrawArrays")) = 1
    /\ \E i \in 0..(state.ModelCount - 1) :
          models[state.Models + i].Meshes = 0 /\ models[state.Models + i].MeshCount > 0

\* a pass that skips a mesh with vertices but no vertex array
C27_WitnessPending ==
    /\ RenderRan
    /\ Cardinality(CallsNamed(calls, "glDrawArrays")) = 1
    /\ \E a \in 2..Len(meshes) : meshes[a].VAO = 0 /\ meshes[a].VertexCount # 0

(***************************************************************************)
(* C28: compiling from a file is reading the file and compiling its        *)
(* contents.  For a readable file the call returns the handle and leaves   *)
(* the error channel as m_skr_gl_create_shader does on the contents: empty *)
(* on success, not empty when the contents do not compile.  For a file     *)
(* that cannot be read it returns 0 with the channel not empty.  The       *)
(* buffer holding the contents is freed exactly once.                      *)
(***************************************************************************)
FromFileRan == op.name = "compileFromFile"

\* the file was opened and the buffer for its contents allocated
FileRead == input[2] \in DOMAIN FileContents /\ env.failAt # 1

\* the buffers given to free by the operation
Freed == {calls[i][2] : i \in CallsNamed(calls, "free")}

\* handle and buffer: what the call returns, and the release of the buffer
FromFileHandleAndBuffer ==
    FromFileRan =>
        IF FileRead
        THEN /\ ret = op.direct.ret
             /\ Cardinality(CallsNamed(calls, "free")) = 1
             /\ Freed = {calls[i][2] : i \in CallsNamed(calls, "malloc")}
        ELSE /\ ret = 0
             /\ CallsNamed(calls, "free") = {}

\* channel: what the call leaves in the error channel
FromFileChannel ==
    FromFileRan =>
        IF FileRead
        THEN /\ SKR_LAST_ERROR = op.direct.err
             /\ ret # 0 => SKR_LAST_ERROR = ""
             /\ ret = 0 => SKR_LAST_ERROR # ""
        ELSE SKR_LAST_ERROR # ""

C28_FromFileIsComposition == FromFileHandleAndBuffer /\ FromFileChannel

(***************************************************************************)
(* C29: the label in the diagnostic of a failed compile is a fixed         *)
(* function of the shader type: vertex -> vert, fragment -> frag,          *)
(* geometry -> geom, compute -> comp, tessellation control -> tesc,        *)
(* tessellation evaluation -> tese, any other -> unknown.  A type without  *)
(* a label of its own does not make the compile fail.                      *)
(***************************************************************************)
CompileRan == op.name = "compile"

LabelOf(type) ==
    CASE type = GL_VERTEX_SHADER -> "vert"
      [] type = GL_FRAGMENT_SHADER -> "frag"
      [] type = GL_GEOMETRY_SHADER -> "geom"
      [] type = GL_COMPUTE_SHADER -> "comp"
      [] type = GL_TESS_CONTROL_SHADER -> "tesc"
      [] type = GL_TESS_EVALUATION_SHADER -> "tese"
      [] OTHER -> "unknown"

CompileDiagnostic(label) ==
    "[SKR] ERROR skr.h:802:m_skr_gl_check_compile_errors: failed to compile "
        \o label \o ": " \o InfoLog

\* the compile fails exactly when the source does not compile, whatever the type
TypeAloneNeverFails == CompileRan => (ret = 0 <=> input[2] # GoodSource)

C29_LabelIsFunctionOfType ==
    /\ TypeAloneNeverFails
    /\ (CompileRan /\ ret = 0) => SKR_LAST_ERROR = CompileDiagnostic(LabelOf(input[1]))

\* the labels to which the claim does hold
LabelOfThree ==
    (CompileRan /\ ret = 0) =>
        SKR_LAST_ERROR = CompileDiagnostic(
            IF input[1] \in {GL_VERTEX_SHADER, GL_FRAGMENT_SHADER, GL_GEOMETRY_SHADER}
            THEN LabelOf(input[1]) ELSE "unknown")

(***************************************************************************)
(* C30: m_skr_last_error_set never writes outside the buffer.  For every   *)
(* length of the prefix and of the message the string stored is at most    *)
(* SKR_LAST_ERROR_SIZE - 1 characters long, so that its terminator is      *)
(* inside the buffer.  A prefix that fits is stored from offset 0 and the  *)
(* message after it; when the prefix is as long as the buffer or longer    *)
(* the message is stored from offset 0.                                    *)
(***************************************************************************)
PrefixLength == Len(ErrorPrefix(op.line, op.func))

C30_SetStaysInBuffer ==
    SetRan =>
        /\ Len(SKR_LAST_ERROR) + 1 <= SKR_LAST_ERROR_SIZE
        /\ PrefixLength >= SKR_LAST_ERROR_SIZE =>
              SKR_LAST_ERROR = Take(op.msg, SKR_LAST_ERROR_SIZE - 1)
        /\ PrefixLength < SKR_LAST_ERROR_SIZE =>
              /\ Take(SKR_LAST_ERROR, PrefixLength) = ErrorPrefix(op.line, op.func)
              /\ Len(SKR_LAST_ERROR) =
                     IF PrefixLength + Len(op.msg) < SKR_LAST_ERROR_SIZE
                     THEN PrefixLength + Len(op.msg) ELSE SKR_LAST_ERROR_SIZE - 1

\* a prefix exactly as long as the buffer, with a message longer than the buffer:
\* the buffer holds the start of the message and is full
C30_Witness ==
    /\ SetRan
    /\ PrefixLength = SKR_LAST_ERROR_SIZE
    /\ Len(op.msg) = 2 * SKR_LAST_ERROR_SIZE
    /\ SKR_LAST_ERROR = Filler(SKR_LAST_ERROR_SIZE - 1)

\* a prefix one character shorter than the buffer: it is stored whole, the message
\* has no room
C30_WitnessFull ==
    /\ SetRan
    /\ PrefixLength = SKR_LAST_ERROR_SIZE - 1
    /\ op.msg # ""
    /\ SKR_LAST_ERROR = ErrorPrefix(op.line, op.func)
(***************************************************************************)
(* C31: m_skr_free_textures_2d with count <= 0 or a null array issues no   *)
(* release call and leaves every texture object, the caller's array and    *)
(* the error channel as they were; with count > 0 and an array it issues   *)
(* one release per handle for exactly the first count handles of the       *)
(* array, in order, and the live textures are those that were live less    *)
(* these handles.                                                          *)
(***************************************************************************)
FreeRan == op.name = "freeTextures"

FreeIsNoOp == op.count <= 0 \/ op.base = 0

FirstHandles == [i \in 1..op.count |-> op.texBefore[op.base + i - 1]]

C31_FreeTextures ==
    FreeRan =>
        /\ textures = op.texBefore
        /\ IF FreeIsNoOp
           THEN /\ calls = <<>>
                /\ gl = op.glBefore
                /\ SKR_LAST_ERROR = op.errBefore
           ELSE /\ calls = [i \in 1..op.count |-> <<"glDeleteTextures", FirstHandles[i]>>]
                /\ gl.textures = op.glBefore.textures \ Range(FirstHandles)

\* an array pointer with count 0 while a texture is live and an error is pending
C31_Witness ==
    /\ FreeRan
    /\ op.base # 0 /\ op.count = 0
    /\ op.glBefore.textures # {}
    /\ op.errBefore # ""

\* two live handles released by one call
C31_WitnessRelease ==
    /\ FreeRan
    /\ op.count = 2 /\ op.base # 0
    /\ Range(FirstHandles) \subseteq op.glBefore.textures
    /\ Cardinality(Range(FirstHandles)) = 2

\* one handle released out of an array of two: the second stays live
C31_WitnessFirstOnly ==
    /\ FreeRan
    /\ op.count = 1 /\ op.base = 1
    /\ Cardinality(op.glBefore.textures) = 2
    /\ gl.textures = {op.texBefore[2]}

\* a null array with a positive count
C31_WitnessNull == FreeRan /\ op.base = 0 /\ op.count > 0 /\ op.glBefore.textures # {}

(***************************************************************************)
(* C32: in every frame of m_skr_gl_glfw_renderer_render, wherever the      *)
(* event poll stands, the framebuffer size is queried and stored on the    *)
(* window before the clear, the clear comes before every draw, every draw  *)
(* before the buffer swap, and the size query, the clear and the swap      *)
(* happen once each; an installed input handler is called once, as the     *)
(* first step of the frame, and no handler is called when none is          *)
(* installed.                                                              *)
(***************************************************************************)
HandlerCalls == CallsNamed(calls, "InputHandler")

C32_FrameStepsInOrder ==
    FrameRan =>
        /\ Once("glfwGetFramebufferSize") /\ Once("glClear") /\ Once("glfwSwapBuffers")
        /\ First("glfwGetFramebufferSize") < First("glClear")
        /\ <<window.Width, window.Height>> = env.fbSize
        /\ \A i \in CallsNamed(calls, "glDrawArrays") :
              First("glClear") < i /\ i < First("glfwSwapBuffers")
        /\ First("glClear") < First("glfwSwapBuffers")
        /\ HandlerCalls = IF window.InputHandler # NULL THEN {1} ELSE {}

\* a frame with a handler installed and a triangle to draw, in which the window
\* was resized
C32_Witness ==
    /\ FrameRan
    /\ HandlerCalls # {}
    /\ CallsNamed(calls, "glDrawArrays") # {}
    /\ env.fbSize # <<WindowZero.Width, WindowZero.Height>>
    /\ "resize" \in env.events

\* a frame without handler and without anything to draw
C32_WitnessBare ==
    /\ FrameRan
    /\ HandlerCalls = {}
    /\ CallsNamed(calls, "glDrawArrays") = {}

(***************************************************************************)
(* C33: m_skr_gl_glfw_mouse_callback writes only LastX, LastY, FirstMouse, *)
(* Yaw, Pitch and Front of the camera: over any sequence of cursor events  *)
(* Position, Up, Right, WorldUp, FOV, Sensitivity and Initialized keep     *)
(* their values, and after each event LastX and LastY are the cursor       *)
(* position of that event.                                                 *)
(***************************************************************************)
UntouchedFields == {"Position", "Up", "Right", "WorldUp", "FOV", "Sensitivity", "Initialized"}

UntouchedKept == \A f \in UntouchedFields : camera'[f] = camera[f]

LastIsCursor == MouseMoved => camera.LastX = op.x /\ camera.LastY = op.y

C33_OnlyOrientationWritten == [](LastIsCursor) /\ [][UntouchedKept]_vars

\* the second event on a camera that was set up with a Right and a WorldUp: the
\* direction has changed, Right has not
C33_Witness ==
    /\ MouseMoved
    /\ ~op.before.FirstMouse
    /\ camera.Initialized
    /\ camera.Front # op.before.Front
    /\ camera.Right = <<1, 0, 0>>
    /\ <<camera.LastX, camera.LastY>> # <<op.before.LastX, op.before.LastY>>

(***************************************************************************)
(* C34: SkrRendererRender makes no backend call and changes nothing when   *)
(* it is given a null pointer or a state whose Window is null.  The state  *)
(* a failed SkrInit returns is all zero and the state SkrFinalize leaves   *)
(* has Window null, Models null and ModelCount 0, so that rendering with   *)
(* either calls no input handler, draws nothing, swaps no buffer and polls *)
(* no event.                                                               *)
(***************************************************************************)
RenderCalled == op.name = "SkrRendererRender"

RenderGuarded == op.s = NULL \/ op.before.state.Window = NULL

FinalizeReturned == op.name = "SkrFinalize" /\ op.outcome = "returned"

C34_RenderGuard ==
    /\ RenderCalled /\ RenderGuarded => calls = <<>> /\ World = op.before
    /\ op.name = "SkrInit" /\ ret = 0 => state = StateZero
    /\ FinalizeReturned =>
          state.Window = NULL /\ state.Models = 0 /\ state.ModelCount = 0

\* &state is rendered after the teardown of a window that had an input handler and
\* a triangle
C34_Witness ==
    /\ RenderCalled
    /\ op.s # NULL
    /\ state.Window = NULL
    /\ window.InputHandler # NULL
    /\ glfw.terminations > 0
    /\ meshes[TriMeshAddr].VertexCount = 3

\* &state is rendered after a failed SkrInit, with events pending
C34_WitnessFailedInit ==
    /\ RenderCalled
    /\ op.s # NULL
    /\ state = StateZero
    /\ ~SKR_OK
    /\ glfw.terminations = 0
    /\ env.events # {}

\* a null pointer is rendered while the window is up
C34_WitnessNull == RenderCalled /\ op.s = NULL /\ state.Window # NULL

(***************************************************************************)
(* C35: SkrFinalize never reads through a null Window: on the state of a   *)
(* successful or failed SkrInit, and again on the state an earlier         *)
(* SkrFinalize left, every SkrFinalize call runs to its end, and a call    *)
(* that finds no window does not shut the window library down.             *)
(***************************************************************************)
FinalizeCalled == op.name = "SkrFinalize"

C35_FinalizeNeverReadsNullWindow ==
    FinalizeCalled /\ op.initRan =>
        /\ op.before.state.Window # NULL
        /\ op.outcome = "returned"
        /\ glfw.terminations <= op.before.glfw.terminations + 1

\* what holds of the code: a window that exists is torn down once by the call that
\* finds it, and the call returns
C35_FinalizeWithWindow ==
    FinalizeCalled /\ op.initRan /\ op.before.state.Window # NULL =>
        /\ op.outcome = "returned"
        /\ glfw.terminations = op.before.glfw.terminations + 1
        /\ glfw.lib = "uninitialized"

(***************************************************************************)
(* C36: Yaw is accumulated without clamp and does not depend on the path   *)
(* of the cursor: after any sequence of cursor events Yaw is its value     *)
(* before the sequence plus Sensitivity times (x of the last event minus   *)
(* x of the first event); Pitch is its value before the sequence plus      *)
(* Sensitivity times (y of the first event minus y of the last) as long as *)
(* no event of the sequence had its pitch clamped.                         *)
(***************************************************************************)
YawTravel(x0) == op.first.camera.Yaw + camera.Sensitivity * (op.x - x0)

PitchTravel(y0) == op.first.camera.Pitch + camera.Sensitivity * (y0 - op.y)

ReferenceX == IF op.first.camera.FirstMouse THEN op.first.x ELSE op.first.camera.LastX

ReferenceY == IF op.first.camera.FirstMouse THEN op.first.y ELSE op.first.camera.LastY

C36_WitnessNotPrimed ==
    /\ MouseMoved
    /\ ~op.first.camera.FirstMouse
    /\ ~op.clamped
    /\ op.before # op.first.camera
    /\ camera.Yaw # YawTravel(op.first.x)
    /\ camera.Pitch # op.first.camera.Pitch

(***************************************************************************)
(* C37: m_skr_gl_create_shader leaks no shader object when the compile     *)
(* fails: the one object the call created is deleted, once, before 0 is    *)
(* returned, the live shaders are those that were live before, and the     *)
(* error channel is not empty.  When the compile succeeds the call has     *)
(* deleted nothing, exactly one shader is live that was not live before,   *)
(* and its nonzero handle is what the call returns.                        *)
(***************************************************************************)
DeleteCalls == CallsNamed(calls, "glDeleteShader")

C37_CompileNeverLeaks ==
    CompileRan =>
        /\ Len(CreatedShaders) = 1
        /\ IF ret = 0
           THEN /\ DeleteCalls = {Len(calls)}
                /\ Times("glDeleteShader", CreatedShaders[1]) = 1
                /\ gl.shaders = op.glBefore.shaders
                /\ gl.stale = op.glBefore.stale
                /\ SKR_LAST_ERROR # ""
           ELSE /\ DeleteCalls = {}
                /\ ret # 0
                /\ ret = CreatedShaders[1]
                /\ ret \notin op.glBefore.shaders
                /\ gl.shaders = op.glBefore.shaders \cup {ret}

\* a compile fails while the shader of an earlier, successful compile is live
C37_Witness ==
    /\ CompileRan
    /\ ret = 0
    /\ op.glBefore.shaders # {}
    /\ gl.shaders = op.glBefore.shaders
    /\ CreatedShaders # <<>>

\* a second compile succeeds: two shaders are live
C37_WitnessSuccess ==
    /\ CompileRan
    /\ ret # 0
    /\ Cardinality(gl.shaders) = 2

(***************************************************************************)
(* C38: after one or more SkrTriangle calls on a state and then            *)
(* SkrFinalize, no vertex array and no vertex buffer made by those calls   *)
(* is live: the teardown has released the VAO and the VBO of each call;    *)
(* and after each SkrTriangle call the state holds exactly one model with  *)
(* one mesh of 3 vertices.                                                 *)
(***************************************************************************)
TeardownAfterTriangles ==
    /\ FinalizeCalled
    /\ op.before.state.Window # NULL
    /\ op.made # {}

OneTriangleModel ==
    /\ state.ModelCount = 1
    /\ models[state.Models].MeshCount = 1
    /\ meshes[models[state.Models].Meshes].VertexCount = 3

C38_LastTriangleReleased ==
    /\ TeardownAfterTriangles =>
          /\ op.before.meshes[TriMeshAddr].VAO \notin gl.vaos
          /\ op.before.meshes[TriMeshAddr].VBO \notin gl.buffers
          /\ [VAO |-> op.before.meshes[TriMeshAddr].VAO,
              VBO |-> op.before.meshes[TriMeshAddr].VBO] \in op.made
          /\ Cardinality(op.made) = 1 =>
                \A t \in op.made : t.VAO \notin gl.vaos /\ t.VBO \notin gl.buffers
    /\ op.name = "SkrTriangle" => OneTriangleModel

====
